---- MODULE Spec2Model ----
(***************************************************************************)
(* Model of apppruebabolsas.py: extraction of order / shipment identifiers *)
(* and catalog part codes from page text, classification of codes into     *)
(* categories and aggregation of page records per order.                   *)
(*                                                                         *)
(* Page text, codes and descriptions are strings; a regular expression of  *)
(* the program is modelled by an operator that computes the spans Python's *)
(* re module returns for it.  Spans are Python spans: 0-based offset of    *)
(* the first character and offset one past the last character.             *)
(***************************************************************************)
EXTENDS Integers, Sequences, FiniteSets, TLC

VARIABLES
  pc,               \* position of the running specification
  text,             \* extract_part_numbers: the argument
  part_counts,      \* extract_part_numbers: the dictionary being built
  matched_ranges,   \* extract_part_numbers: sorted list of covered spans
  counted_matches,  \* history: <<part_key, start, end>> of every match that was counted
  doc,              \* parse_pdf: the text of each page of the document
  classify_pickup,  \* group_by_order: the flag argument
  page_num,         \* parse_pdf: number of pages parsed so far
  all_pages_data,   \* parse_pdf: the page records
  all_relations,    \* parse_pdf: the relation records
  two_day_sh_list,  \* parse_pdf: shipment IDs with two-day shipping
  pages_folded,     \* group_by_order: number of pages folded so far
  order_map,        \* group_by_order: the accumulators by order ID
  item_code,        \* classify_item: first argument
  item_description, \* classify_item: second argument
  category,         \* classify_item: what the latest call returned
  previous,         \* classify_item: what the call before it returned
  calls,            \* classify_item: number of calls made with these arguments
  identifiers,      \* extract_identifiers: the returned <<order_id, shipment_id>>
  build_doc,        \* main script: the text of each page of the build sheets
  ship_doc,         \* main script: the text of each page of the shipment pick lists
  pickup_flag,      \* main script: the checkbox
  build_pages,      \* main script: page records of the build sheets
  ship_pages,       \* main script: page records of the shipment pick lists
  all_two_day,      \* main script: shipment IDs with two-day shipping of both uploads
  all_meta,         \* main script: accumulators over the pages of both uploads
  build_map,        \* main script: accumulators over the build pages
  ship_map,         \* main script: accumulators over the shipment pages
  build_order,      \* main script: order IDs of the build sheets, first appearance
  summary,          \* main script: the summary page
  pickups,          \* merge_documents: the pickup orders
  merged            \* merge_documents: the items of the output document, in order

(***************************************************************************)
(* Characters and strings                                                  *)
(***************************************************************************)
Ch(s, i) == SubSeq(s, i, i)

CharsOf(s) == { Ch(s, i) : i \in 1..Len(s) }

LowerLetters == "abcdefghijklmnopqrstuvwxyz"

UpperLetters == "ABCDEFGHIJKLMNOPQRSTUVWXYZ"

DigitChars == CharsOf("0123456789")

\* \w of the re module, restricted to ASCII
WordChars == CharsOf(LowerLetters) \cup CharsOf(UpperLetters) \cup DigitChars \cup {"_"}

\* \s of the re module, restricted to the characters page text is built from
SpaceChars == {" ", "\t", "\n"}

IsWord(c) == c \in WordChars

IsSpace(c) == c \in SpaceChars

\* the accented letters of the labels of the report
AccentedLower == "áéíóúñ"

AccentedUpper == "ÁÉÍÓÚÑ"

UpperTable ==
  [ c \in CharsOf(LowerLetters) |->
      Ch(UpperLetters, CHOOSE i \in 1..Len(LowerLetters) : Ch(LowerLetters, i) = c) ]
  @@ [ c \in CharsOf(AccentedLower) |->
         Ch(AccentedUpper, CHOOSE i \in 1..Len(AccentedLower) : Ch(AccentedLower, i) = c) ]

UpperChar(c) == IF c \in DOMAIN UpperTable THEN UpperTable[c] ELSE c

RECURSIVE upper(_)
\* str.upper(): every character upper-cased, the text halved at each step
upper(s) ==
  IF s = "" THEN ""
  ELSE IF Len(s) = 1 THEN UpperChar(s)
  ELSE upper(SubSeq(s, 1, Len(s) \div 2)) \o upper(SubSeq(s, Len(s) \div 2 + 1, Len(s)))

\* str.startswith(prefix)
startswith(s, prefix) == Len(prefix) <= Len(s) /\ SubSeq(s, 1, Len(prefix)) = prefix

\* s[o:o+len(lit)] == lit, o a 0-based offset
LitAt(s, o, lit) == o + Len(lit) <= Len(s) /\ SubSeq(s, o + 1, o + Len(lit)) = lit

\* lit in s
Contains(s, lit) == \E o \in 0..(Len(s) - Len(lit)) : LitAt(s, o, lit)

\* \b at 0-based offset o: exactly one of s[o-1], s[o] is a word character
WordBoundary(s, o) ==
  (o > 0 /\ IsWord(Ch(s, o))) # (o < Len(s) /\ IsWord(Ch(s, o + 1)))

Min(S) == CHOOSE x \in S : \A y \in S : x <= y

\* offset one past the longest run of characters outside stop that starts at offset o
RunEnd(s, o, stop) ==
  Min({ e \in o..Len(s) : e = Len(s) \/ Ch(s, e + 1) \in stop })

(***************************************************************************)
(* The catalog, in the order of the dictionary literal                     *)
(***************************************************************************)
PART_ITEMS ==
  << <<"B-PG-081-BLK", "2023 PXG Deluxe Cart Bag - Black">>,
     <<"B-PG-082-WHT", "2023 PXG Lightweight Cart Bag - White/Black">>,
     <<"B-PG-172", "2025 Stars & Stripes LW Carry Stand Bag">>,
     <<"B-PG-172-BGRY", "Xtreme Carry Stand Bag - Black">>,
     <<"B-PG-172-BLACK", "Xtreme Carry Stand Bag - Freedom - Black">>,
     <<"B-PG-172-DB", "Deluxe Carry Stand Bag - Black">>,
     <<"B-PG-172-DKNSS", "Deluxe Carry Stand Bag - Darkness">>,
     <<"B-PG-172-DW", "Deluxe Carry Stand Bag - White">>,
     <<"B-PG-172-GREEN", "Xtreme Carry Stand Bag - Freedom - Green">>,
     <<"B-PG-172-GREY", "Xtreme Carry Stand Bag - Freedom - Grey">>,
     <<"B-PG-172-NAVY", "Xtreme Carry Stand Bag - Freedom - Navy">>,
     <<"B-PG-172-TAN", "Xtreme Carry Stand Bag - Freedom - Tan">>,
     <<"B-PG-172-WBLK", "Xtreme Carry Stand Bag - White">>,
     <<"B-PG-173", "2025 Stars & Stripes Hybrid Stand Bag">>,
     <<"B-PG-173-BGRY", "Xtreme Hybrid Stand Bag - Black">>,
     <<"B-PG-173-BO", "Deluxe Hybrid Stand Bag - Black">>,
     <<"B-PG-173-DKNSS", "Deluxe Hybrid Stand Bag - Darkness">>,
     <<"B-PG-173-WBLK", "Xtreme Hybrid Stand Bag - White">>,
     <<"B-PG-173-WO", "Deluxe Hybrid Stand Bag - White">>,
     <<"B-PG-244", "Xtreme Cart Bag - White">>,
     <<"B-PG-245", "2025 Stars & Stripes Cart Bag">>,
     <<"B-PG-245-BLK", "Deluxe Cart Bag B2 - Black">>,
     <<"B-PG-245-WHT", "Deluxe Cart Bag B2 - White">>,
     <<"B-PG-246-POLY", "Minimalist Carry Stand Bag - Black">>,
     <<"B-UGB8-EP", "2020 Carry Stand Bag - Black">>,
     <<"B-UGB14-FM", "PXG Sunday Stand Bag - Black/White">>,
     <<"B-UGB2-EP", "2020 Tour Bag- Black">>,
     <<"B-UGB13-EP-B", "Den Caddy- Black">>,
     <<"GB-DOZ-XTREME", "Xtreme Golf Ball - Dozen">>,
     <<"GB-DOZ-XTTR-WHT", "Xtreme Tour Golf Ball - White - Dozen">>,
     <<"GB-DOZ-XTTR-YEL", "Xtreme Tour Golf Ball - Yellow - Dozen">>,
     <<"GB-DOZ-XTTRX-WHT", "Xtreme Tour X Golf Ball - White - Dozen">>,
     <<"H-22PXG000013-BLK", "Tall Visor - Black">>,
     <<"H-22PXG000013-WHT", "Tall Visor - White">>,
     <<"H-22PXG000014-BLK", "Sport Visor - Black">>,
     <<"H-22PXG000014-WHT", "Sport Visor - White">>,
     <<"H-23PXG0000124-2-GB-OSFM", "Dog Tag 6-Panel Snapback Cap - Grey/Black Logo - One Size">>,
     <<"H-23PXG0000124-2-BG-OSFM", "Dog Tag 6-Panel Snapback Cap - Black/Grey Logo - One Size">>,
     <<"H-23PXG0000124-2-BW-OSFM", "Dog Tag 6-Panel Snapback Cap - Black/White Logo - One Size">>,
     <<"H-23PXG0000124-2-CG-OSFM", "Dog Tag 6-Panel Snapback Cap - White/Grey Logo - One Size">>,
     <<"H-23PXG0000124-2-WG-OSFM", "Dog Tag 6-Panel Snapback Cap - White/Grey Logo - One Size">>,
     <<"H-23PXG000078-1-S-M", "Tour Bush Hat - White - S/M">>,
     <<"H-23PXG000094-1-OSFM-BLK", "Faceted Front Trucker Cap - Black - One Size">>,
     <<"H-23PXG000094-1-OSFM-WHT", "Faceted Front Trucker Cap - White - One Size">>,
     <<"H-23PXG000101-BW-OSFM", "Men's 6-Panel High Crown Snapback Cap - Black/White Logo - One Size">>,
     <<"H-23PXG000101-NW-OSFM", "Men's 6-Panel High Crown Snapback Cap - Navy/White Logo - One Size">>,
     <<"H-23PXG000101-WB-OSFM", "Men's 6-Panel High Crown Snapback Cap - White/Black Logo - One Size">>,
     <<"H-23PXG000101-WG-OSFM", "Men's 6-Panel High Crown Snapback Cap - White/Grey Logo - One Size">>,
     <<"H-23PXG000123-BG-OSFM", "Men's Dog Tag 6-Panel High Crown Snapback Cap - Black/Grey Logo - One Size">>,
     <<"H-23PXG000123-BW-OSFM", "Men's Dog Tag 6-Panel High Crown Snapback Cap - Black/White Logo - One Size">>,
     <<"H-23PXG000123-GB-OSFM", "Men's Dog Tag 6-Panel High Crown Snapback Cap - Grey/Black Logo - One Size">>,
     <<"H-23PXG000123-WG-OSFM", "Men's Dog Tag 6-Panel High Crown Snapback Cap - White/Grey Logo - One Size">>,
     <<"H-23PXG000125-WN-OSFM", "Men's Dog Tag 5-Panel Snapback Cap - White/Navy Logo - One Size">>,
     <<"H-23PXG000125-BG-OSFM", "Men's Dog Tag 5-Panel Snapback Cap - Black/Grey Logo - One Size">>,
     <<"H-23PXG000125-BW-OSFM", "Men's Dog Tag 5-Panel Snapback Cap - Black/White Logo - One Size">>,
     <<"H-23PXG000125-GB-OSFM", "Men's Dog Tag 5-Panel Snapback Cap - Grey/Black Logo - One Size">>,
     <<"H-23PXG000125-NW-OSFM", "Men's Dog Tag 5-Panel Snapback Cap - Navy/White Logo - One Size">>,
     <<"H-23PXG000125-WG-OSFM", "Men's Dog Tag 5-Panel Snapback Cap - White/Grey Logo - One Size">>,
     <<"H-23PXG000126-WN-OSFM", "Stretch Snapback Hat - White - One Size">>,
     <<"H-23PXG000166-BLK-OSFM", "Stretch Snapback Hat - Black - One Size">>,
     <<"H-23PXG000166-WHT-OSFM", "Stretch Snapback Hat - White - One Size">>,
     <<"H-23PXG000167-WB-OSFM", "Scottsdale Trucker Snapback Hat - White/Blue Logo - One Size">>,
     <<"H-23PXG000167-BW-OSFM", "Scottsdale Trucker Snapback Hat - Black/White Logo - One Size">>,
     <<"H-23PXG000167-GB-OSFM", "Scottsdale Trucker Snapback Hat - Grey/Black Logo - One Size">>,
     <<"H-23PXG000167-WHT-OSFM", "Scottsdale Trucker Snapback Hat - White - One Size">>,
     <<"H-23PXG000167-WW-OSFM", "Scottsdale Trucker Snapback Hat - White/White Logo - One Size">>,
     <<"H-23PXG000168-BLK-OSFM", "Stretch Patch Snapback Hat - Black - One Size">>,
     <<"H-23PXG000168-GRY-OSFM", "Stretch Patch Snapback Hat - Grey - One Size">>,
     <<"H-23PXG000168-NVY-OSFM", "Stretch Patch Snapback Hat - Navy - One Size">>,
     <<"H-23PXG000168-WHT-OSFM", "Stretch Patch Snapback Hat - White - One Size">>,
     <<"H-24PXG000203-2-BLK-OSFM", "Women's Metallic Minimalist - Unstructured Hat - Black - One Size">>,
     <<"H-24PXG000203-2-WHT-OSFM", "Women's Metallic Minimalist - Unstructured Hat - White - One Size">>,
     <<"H-24PXG000214-1-BLK-OSFM", "Camper Flat Bill Snapback Cap - Black - One Size">>,
     <<"H-24PXG000214-1-WHT-OSFM", "Camper Flat Bill Snapback Cap - White - One Size">>,
     <<"H-24PXG000218-1-OSFM", "6 Panel Structured Low Crown Snapback Cap - Black - One Size">>,
     <<"H-24PXG000219-OSFM", "Women's Metallic Minimalist - Unstructured Hat - Grey - One Size">>,
     <<"H-24PXG000229-OSFM", "US Navy Structured Hat Snapback - One Size">>,
     <<"H-24PXG000235-BW-OSFM", "Dog Tag 6-Panel Low Crown Snapback - Black/White Logo - One Size">>,
     <<"H-24PXG000235-GB-OSFM", "Dog Tag 6-Panel Low Crown Snapback - Grey/Black Logo - One Size">>,
     <<"H-24PXG000235-WG-OSFM", "Dog Tag 6-Panel Low Crown Snapback - White/Grey Logo - One Size">>,
     <<"H-24PXG000239-OSFM", "Women's Metallic Minimalist - Unstructured Hat - Light Blue - One Size">>,
     <<"H-24PXG000276-OSFM", "2025 Stars & Stripes Low Crown Cap - One Size">>,
     <<"H-24PXG000277-OSFM", "2025 Stars & Stripes Dog Tag Cap - One Size">>,
     <<"H-24PXG000278-OSFM", "2025 Stars & Stripes High Crown Cap - One Size">>,
     <<"H-25PXG000282-OSFM", "2025 Stars & Stripes Trucker Cap - One Size">>,
     <<"H-24PXG000282-OSFM", "2025 Stars & Stripes Trucker Cap - One Size">>,
     <<"H-25PXG000283-OSFM", "2025 Stars & Stripes Dog Tag Trucker - One Size">>,
     <<"H-USMC-ADJ", "PXG USMC Unstructured Hat - Adjustable">>,
     <<"A-UAC18-FM", "PXG Wedge Brush - Chrome">>,
     <<"A-UAC17-FM", "PXG Wedge Brush - Black">>,
     <<"A-ALIGNSTICKS-WHT", "PXG Player Alignment Sticks - White">>,
     <<"A-NX10SLOPE-PXG", "PXG NX10 Rangefinder Slope Edition - White">>,
     <<"A-UAC28-FM", "PXG Milled Divot Tool (Weighted)">>,
     <<"A-IHC62918PXG-COP", "PXG Magnetic Ball Marker & Cap Clip - Rose Gold">>,
     <<"A-IHC62920PXG-BLK", "PXG Magnetic Ball Marker & Cap Clip - Black">>,
     <<"A-DUO-PXG", "PXG Golf Speaker - White">>,
     <<"A-ICU55715PXG-ALS", "PXG Deluxe Alignment Stick Cover">>,
     <<"A-DARKNESS-COASTER", "PXG Darkness Coaster">>,
     <<"HC-JT-1053-KIT", "PXG 2022 Iron Cover Kit">>,
     <<"A-UAC29-FM", "PXG (DRKNSS) Divot Tool">>,
     <<"A-Q25240-ASM", "Milled Starburst Ball Marker">>,
     <<"A-ZNP53374-1", "Darkness Leather Wrapped Divot Tool">>,
     <<"A-JT-4697", "Darkness Alignment Stick Cover - Black">>,
     <<"A-1IBM65819PXGCAT", "Copper Cactus Ball Marker">>,
     <<"A-Q23192-ASM-2", "Chrome Logo Ball Marker">>,
     <<"A-Q25645-ASM-1", "2025 Stars & Stripes Ball Marker">>,
     <<"A-1IBM65820PXG-DT", "2023 Darkness Dog Tag Ball Marker">>,
     <<"G4-652011019LHL-BLK", "Men's LH Players Glove - Black L">>,
     <<"G4-652011019LHLC-BLK", "Men's LH Players Glove - Cadet Black L">>,
     <<"G4-652011019LHLW-BLK", "Men's LH Players Glove - White L">>,
     <<"G4-652011019LHM-BLK", "Men's LH Players Glove - Black M">>,
     <<"G4-652011019LHMC-BLK", "Men's LH Players Glove - Cadet Black M">>,
     <<"G4-652011019LHML-BLK", "Men's LH Players Glove - Black ML">>,
     <<"G4-652011019LHMLC-BLK", "Men's LH Players Glove - Cadet Black ML">>,
     <<"G4-652011019LHMW-BLK", "Women's LH Players Glove - Black M">>,
     <<"G4-652011019LHS-BLK", "Men's LH Players Glove - Black S">>,
     <<"G4-652011019LHSC-BLK", "Men's LH Players Glove - Cadet Black S">>,
     <<"G4-652011019LHSW-BLK", "Men's LH Players Glove - White S">>,
     <<"G4-652011019LHXL-BLK", "Men's LH Players Glove - Black XL">>,
     <<"G4-652011019LHXLC-BLK", "Men's LH Players Glove - Cadet Black XL">>,
     <<"G4-652011019RHL-BLK", "Men's RH Players Glove - Black L">>,
     <<"G4-652011019RHLC-BLK", "Men's RH Players Glove - Cadet Black L">>,
     <<"G4-652011019RHM-BLK", "Men's RH Players Glove - Black M">>,
     <<"G4-652011019RHMC-BLK", "Men's RH Players Glove - Cadet Black M">>,
     <<"G4-652011019RHML-BLK", "Men's RH Players Glove - Black ML">>,
     <<"G4-652011019RHMLC-BLK", "Men's RH Players Glove - Cadet Black ML">>,
     <<"G4-652011019RHS-BLK", "Men's RH Players Glove - Black S">>,
     <<"G4-652011019RHSC-BLK", "Men's RH Players Glove - Cadet Black S">>,
     <<"G4-652011019RHXL-BLK", "Men's RH Players Glove - Black XL">>,
     <<"G4-652011019RHXLC-BLK", "Men's RH Players Glove - Cadet Black XL">>,
     <<"G4-652011019RHXXL-BLK", "Men's RH Players Glove - Black XXL">>,
     <<"G4-652021019LHL-WHT", "Men's LH Players Glove - White L">>,
     <<"G4-652021019LHLC-WHT", "Men's LH Players Glove - Cadet White L">>,
     <<"G4-652021019LHLW-WHT", "Men's LH Players Glove - White L">>,
     <<"G4-652021019LHM-WHT", "Men's LH Players Glove - White M">>,
     <<"G4-652021019LHMC-WHT", "Men's LH Players Glove - Cadet White M">>,
     <<"G4-652021019LHML-WHT", "Men's LH Players Glove - White ML">>,
     <<"G4-652021019LHMLC-WHT", "Men's LH Players Glove - Cadet White ML">>,
     <<"G4-652021019LHMW-WHT", "Women's LH Players Glove - White M">>,
     <<"G4-652021019LHS-WHT", "Men's LH Players Glove - White S">>,
     <<"G4-652021019LHSC-WHT", "Men's LH Players Glove - Cadet White S">>,
     <<"G4-652021019LHSW-WHT", "Men's LH Players Glove - White S">>,
     <<"G4-652021019LHXL-WHT", "Men's LH Players Glove - White XL">>,
     <<"G4-652021019LHXLC-WHT", "Men's LH Players Glove - Cadet White XL">>,
     <<"G4-652021019LHXXL-WHT", "Men's LH Players Glove - White XXL">>,
     <<"G4-652021019RHL-WHT", "Men's RH Players Glove - White L">>,
     <<"G4-652021019RHLC-WHT", "Men's RH Players Glove - Cadet White L">>,
     <<"G4-652021019RHLW-WHT", "Men's RH Players Glove - White L">>,
     <<"G4-652021019RHM-WHT", "Men's RH Players Glove - White M">>,
     <<"G4-652021019RHMC-WHT", "Men's RH Players Glove - Cadet White M">>,
     <<"G4-652021019RHML-WHT", "Men's RH Players Glove - White ML">>,
     <<"G4-652021019RHMLC-WHT", "Men's RH Players Glove - Cadet White ML">>,
     <<"G4-652021019RHMW-WHT", "Women's RH Players Glove - White M">>,
     <<"G4-652021019RHS-WHT", "Men's RH Players Glove - White S">>,
     <<"G4-652021019RHSC-WHT", "Men's RH Players Glove - Cadet White S">>,
     <<"G4-652021019RHSW-WHT", "Men's RH Players Glove - White S">>,
     <<"G4-652021019RHXL-WHT", "Men's RH Players Glove - White XL">>,
     <<"G4-652021019RHXLC-WHT", "Men's RH Players Glove - Cadet White XL">>,
     <<"G4-652021019RHXXL-WHT", "Men's RH Players Glove - White XXL">> >>

PART_KEYS == [ i \in 1..Len(PART_ITEMS) |-> PART_ITEMS[i][1] ]

KeySet == { PART_KEYS[i] : i \in 1..Len(PART_KEYS) }

PART_DESCRIPTIONS ==
  [ k \in KeySet |->
      PART_ITEMS[CHOOSE i \in 1..Len(PART_ITEMS) :
                   /\ PART_ITEMS[i][1] = k
                   /\ \A j \in (i + 1)..Len(PART_ITEMS) : PART_ITEMS[j][1] # k][2] ]

MaxKeyLen == CHOOSE n \in 1..64 : /\ \E k \in KeySet : Len(k) = n
                                  /\ \A k \in KeySet : Len(k) <= n

RECURSIVE SortedFrom(_)
\* the keys of length <= n, longest first, keys of one length in dictionary order
SortedFrom(n) ==
  IF n = 0 THEN <<>>
  ELSE SelectSeq(PART_KEYS, LAMBDA k : Len(k) = n) \o SortedFrom(n - 1)

\* sorted(PART_DESCRIPTIONS.keys(), key=len, reverse=True)
all_part_keys_sorted == SortedFrom(MaxKeyLen)

(***************************************************************************)
(* extract_part_numbers                                                    *)
(***************************************************************************)
RECURSIVE finditer_part(_, _, _)
\* re.finditer(r'\b' + re.escape(part_key) + r'\S*', text_upper), the spans
\* of the matches that start at offset from or later
finditer_part(part_key, text_upper, from) ==
  LET cands == { o \in from..(Len(text_upper) - Len(part_key)) :
                   WordBoundary(text_upper, o) /\ LitAt(text_upper, o, part_key) }
  IN  IF cands = {} THEN <<>>
      ELSE LET start == Min(cands)
               end   == RunEnd(text_upper, start + Len(part_key), SpaceChars)
           IN  << <<start, end>> >> \o finditer_part(part_key, text_upper, end)

\* prev_start <= start < end <= prev_end for some covered span
is_shadowed(ranges, start, end) ==
  \E i \in 1..Len(ranges) :
    ranges[i][1] <= start /\ start < end /\ end <= ranges[i][2]

TupleLess(a, b) == a[1] < b[1] \/ (a[1] = b[1] /\ a[2] < b[2])

\* matched_ranges.append(r); matched_ranges.sort()   (the list is sorted before)
AppendSort(ranges, r) ==
  LET n == Cardinality({ i \in 1..Len(ranges) : ~ TupleLess(r, ranges[i]) })
  IN  SubSeq(ranges, 1, n) \o <<r>> \o SubSeq(ranges, n + 1, Len(ranges))

\* part_counts[k] += 1 on a defaultdict(int)
Increment(counts, k) ==
  IF k \in DOMAIN counts THEN [counts EXCEPT ![k] = @ + 1] ELSE counts @@ (k :> 1)

\* body of the loop over the matches of one key
OneMatch(acc, part_key, text_upper, m) ==
  LET start == m[1]
      end   == m[2]
      matched_text == SubSeq(text_upper, start + 1, end)
      counted == [ counts  |-> Increment(acc.counts, part_key),
                   ranges  |-> AppendSort(acc.ranges, <<start, end>>),
                   credits |-> Append(acc.credits, <<part_key, start, end>>) ]
  IN  IF is_shadowed(acc.ranges, start, end) THEN acc
      ELSE IF part_key = matched_text THEN counted
      ELSE IF startswith(matched_text, part_key) /\ part_key \in DOMAIN PART_DESCRIPTIONS
           THEN counted
      ELSE acc

RECURSIVE MatchLoop(_, _, _, _)
MatchLoop(acc, part_key, text_upper, ms) ==
  IF ms = <<>> THEN acc
  ELSE MatchLoop(OneMatch(acc, part_key, text_upper, Head(ms)), part_key, text_upper, Tail(ms))

RECURSIVE KeyLoop(_, _, _)
\* for part_key in keys, from the i-th key on
KeyLoop(acc, text_upper, keys) ==
  IF keys = <<>> THEN acc
  ELSE KeyLoop(MatchLoop(acc, Head(keys), text_upper,
                         finditer_part(Head(keys), text_upper, 0)),
               text_upper, Tail(keys))

\* the main search of extract_part_numbers; an iteration whose finditer is
\* empty changes nothing, so the loop runs over the keys that have a match
main_search(t) ==
  LET text_upper == upper(t)
      keys == SelectSeq(all_part_keys_sorted,
                        LAMBDA k : finditer_part(k, text_upper, 0) # <<>>)
  IN  KeyLoop([counts |-> <<>>, ranges |-> <<>>, credits |-> <<>>], text_upper, keys)

\* the glove pattern with \S* as its tail, as extract_relations writes it
GloveStop_AnyNonSpace == SpaceChars

\* the characters that end group 1 of the glove pattern: [^\s\-]*
GloveStop == SpaceChars \cup {"-"}

RECURSIVE finditer_glove(_, _, _)
\* re.finditer(r'(G4-6520[^\s\-]*)', text_upper, re.IGNORECASE): group 1 of
\* the matches that start at offset from or later
finditer_glove(text_upper, from, stop) ==
  LET cands == { o \in from..(Len(text_upper) - 7) : LitAt(upper(text_upper), o, "G4-6520") }
  IN  IF cands = {} THEN <<>>
      ELSE LET start == Min(cands)
               end   == RunEnd(text_upper, start + 7, stop)
           IN  <<SubSeq(text_upper, start + 1, end)>> \o finditer_glove(text_upper, end, stop)

RECURSIVE GloveLoop(_, _)
GloveLoop(counts, gs) ==
  IF gs = <<>> THEN counts
  ELSE GloveLoop(IF Head(gs) \in DOMAIN PART_DESCRIPTIONS
                 THEN Increment(counts, Head(gs)) ELSE counts, Tail(gs))

\* the additional glove search of extract_part_numbers
glove_search(counts, t) == GloveLoop(counts, finditer_glove(upper(t), 0, GloveStop))

\* extract_part_numbers(text)
extract_part_numbers(t) == glove_search(main_search(t).counts, t)

(***************************************************************************)
(* extract_identifiers and the other patterns                              *)
(***************************************************************************)
\* Python's None; no identifier the patterns produce equals it
None == "None"

\* truth value of an identifier: neither None nor the empty string
Truthy(v) == v # None /\ v # ""

\* rstrip('-')
RECURSIVE rstrip_hyphen(_)
rstrip_hyphen(s) ==
  IF s # "" /\ Ch(s, Len(s)) = "-" THEN rstrip_hyphen(SubSeq(s, 1, Len(s) - 1)) ELSE s

\* offset one past the run of digits that starts at offset o
DigitsEnd(s, o) == Min({ e \in o..Len(s) : e = Len(s) \/ Ch(s, e + 1) \notin DigitChars })

\* offset one past the run of whitespace that starts at offset o   (\s*)
SpacesEnd(s, o) == Min({ e \in o..Len(s) : e = Len(s) \/ ~ IsSpace(Ch(s, e + 1)) })

OrderPrefixes == {"SO-", "USS", "SOC", "AMZ"}

\* a search without a match
NoMatch == <<>>

\* ORDER_REGEX matched at offset o with group 1 = prefix: <<group 1, group 2>>.
\* \d+ is followed by \b, so it takes the whole run of digits and the run is
\* not followed by a word character.
OrderMatchAt(s, o, prefix) ==
  LET q == o + Len(prefix)
      d == IF LitAt(s, q, "-") THEN q + 1 ELSE q
      e == DigitsEnd(s, d)
  IN  IF /\ WordBoundary(s, o)
         /\ LitAt(s, o, prefix)
         /\ e > d
         /\ WordBoundary(s, e)
      THEN <<prefix, SubSeq(s, d + 1, e)>>
      ELSE NoMatch

\* ORDER_REGEX.search(text): groups of the leftmost match, or NoMatch
order_search(s) ==
  LET hits == { o \in 0..Len(s) : \E p \in OrderPrefixes : OrderMatchAt(s, o, p) # NoMatch }
  IN  IF hits = {} THEN NoMatch
      ELSE LET o == Min(hits)
           IN  OrderMatchAt(s, o, CHOOSE p \in OrderPrefixes : OrderMatchAt(s, o, p) # NoMatch)

MinShipmentDigits == 5

\* SHIPMENT_REGEX.search(text): group 1 of the leftmost match, or None
shipment_search(s) ==
  LET hits == { o \in 0..Len(s) :
                  /\ WordBoundary(s, o)
                  /\ LitAt(s, o, "SH")
                  /\ DigitsEnd(s, o + 2) - (o + 2) >= MinShipmentDigits
                  /\ WordBoundary(s, DigitsEnd(s, o + 2)) }
  IN  IF hits = {} THEN None
      ELSE SubSeq(s, Min(hits) + 1, DigitsEnd(s, Min(hits) + 2))

\* extract_identifiers with group 1 used as matched, its hyphen kept
extract_identifiers_no_rstrip(t) ==
  LET order_match == order_search(t)
  IN  << IF order_match # NoMatch
         THEN order_match[1] \o "-" \o order_match[2]
         ELSE None,
         shipment_search(t) >>

\* extract_identifiers(text): <<order_id, shipment_id>>
extract_identifiers(t) ==
  LET order_match == order_search(t)
  IN  << IF order_match # NoMatch
         THEN rstrip_hyphen(order_match[1]) \o "-" \o order_match[2]
         ELSE None,
         shipment_search(t) >>

\* a \s* b matched at offset o, case-insensitively (su is the upper-cased text)
TwoWordsAt(su, o, a, b) ==
  LitAt(su, o, a) /\ LitAt(su, SpacesEnd(su, o + Len(a)), b)

\* PICKUP_REGEX.search(text)
pickup_search(t) ==
  LET su == upper(t)
  IN  \E o \in 0..Len(su) :
        \/ TwoWordsAt(su, o, "CUSTOMER", "PICKUP")
        \/ TwoWordsAt(su, o, "CUST", "PICKUP")
        \/ LitAt(su, o, "CUSTPICKUP")

\* SHIPPING_2DAY_REGEX.search(text)
shipping_2day_search(t) ==
  LET su == upper(t)
  IN  \E o \in 0..Len(su) :
        /\ TwoWordsAt(su, o, "SHIPPING", "METHOD:")
        /\ LET m == SpacesEnd(su, o + 8) + 7
               n == SpacesEnd(su, m)
           IN  TwoWordsAt(su, n, "2", "DAY")

(***************************************************************************)
(* extract_relations                                                       *)
(***************************************************************************)
Relation(order_id, part_num, shipment_id) ==
  [ Orden |-> order_id, Codigo |-> part_num,
    Descripcion |-> PART_DESCRIPTIONS[part_num], SH |-> shipment_id ]

\* extract_relations(text, order_id, shipment_id)
extract_relations(t, order_id, shipment_id) ==
  LET text_upper == upper(t)
      found == SelectSeq(PART_KEYS,
                         LAMBDA k : /\ finditer_part(k, text_upper, 0) # <<>>
                                    /\ Truthy(order_id)
                                    /\ Truthy(shipment_id))
      gloves == SelectSeq(finditer_glove(text_upper, 0, SpaceChars),
                          LAMBDA g : g \in DOMAIN PART_DESCRIPTIONS)
  IN  [ i \in 1..Len(found) |-> Relation(order_id, found[i], shipment_id) ]
      \o [ i \in 1..Len(gloves) |-> Relation(order_id, gloves[i], shipment_id) ]

(***************************************************************************)
(* parse_pdf, one page                                                     *)
(***************************************************************************)
\* the page record of page number n with text t
page_data(n, t) ==
  LET ids == extract_identifiers(t)
  IN  [ number |-> n, order_id |-> ids[1], shipment_id |-> ids[2],
        part_numbers |-> extract_part_numbers(t), text |-> t ]

(***************************************************************************)
(* group_by_order, one page                                                *)
(***************************************************************************)
\* order_map[oid] of the defaultdict
Accumulator(map, oid) ==
  IF oid \in DOMAIN map THEN map[oid]
  ELSE [ pages |-> <<>>, pickup |-> FALSE, part_numbers |-> <<>> ]

\* part_numbers[part_num] += qty for every item of the page
AddCounts(totals, counts) ==
  [ k \in DOMAIN totals \cup DOMAIN counts |->
      (IF k \in DOMAIN totals THEN totals[k] ELSE 0)
      + (IF k \in DOMAIN counts THEN counts[k] ELSE 0) ]

\* the loop body without the test of the order ID
group_page_no_skip(map, page, flag) ==
  LET oid == page.order_id
      acc == Accumulator(map, oid)
      new == [ pages        |-> Append(acc.pages, page),
               pickup       |-> acc.pickup \/ (flag /\ pickup_search(page.text)),
               part_numbers |-> AddCounts(acc.part_numbers, page.part_numbers) ]
  IN  [ o \in DOMAIN map \cup {oid} |-> IF o = oid THEN new ELSE map[o] ]

\* the loop body with the pickup flag assigned from the page instead of
\* only ever set to true
group_page_pickup_assigned(map, page, flag) ==
  LET oid == page.order_id
      acc == Accumulator(map, oid)
      new == [ pages        |-> Append(acc.pages, page),
               pickup       |-> flag /\ pickup_search(page.text),
               part_numbers |-> AddCounts(acc.part_numbers, page.part_numbers) ]
  IN  IF ~ Truthy(oid) THEN map
      ELSE [ o \in DOMAIN map \cup {oid} |-> IF o = oid THEN new ELSE map[o] ]

\* the loop body with the pickup pattern tested whatever classify_pickup is
group_page_flag_ignored(map, page, flag) ==
  LET oid == page.order_id
      acc == Accumulator(map, oid)
      new == [ pages        |-> Append(acc.pages, page),
               pickup       |-> acc.pickup \/ pickup_search(page.text),
               part_numbers |-> AddCounts(acc.part_numbers, page.part_numbers) ]
  IN  IF ~ Truthy(oid) THEN map
      ELSE [ o \in DOMAIN map \cup {oid} |-> IF o = oid THEN new ELSE map[o] ]

\* the body of the loop of group_by_order for one page
group_page(map, page, flag) ==
  LET oid == page.order_id
      acc == Accumulator(map, oid)
      new == [ pages        |-> Append(acc.pages, page),
               pickup       |-> acc.pickup \/ (flag /\ pickup_search(page.text)),
               part_numbers |-> AddCounts(acc.part_numbers, page.part_numbers) ]
  IN  IF ~ Truthy(oid) THEN map
      ELSE [ o \in DOMAIN map \cup {oid} |-> IF o = oid THEN new ELSE map[o] ]

\* the loop of group_by_order over the page records
RECURSIVE FoldPages(_, _, _)
FoldPages(map, pages, flag) ==
  IF pages = <<>> THEN map
  ELSE FoldPages(group_page(map, Head(pages), flag), Tail(pages), flag)

\* group_by_order with an accumulator created before the loop
group_by_order_eager(pages, flag) ==
  FoldPages(None :> Accumulator(<<>>, None), pages, flag)

\* group_by_order(pages, classify_pickup)
group_by_order(pages, flag) == FoldPages(<<>>, pages, flag)

(***************************************************************************)
(* classify_item                                                           *)
(***************************************************************************)
\* classify_item with the hat rule tested before the ball rule
classify_item_hats_first(code, description) ==
  LET item_code_upper        == upper(code)
      item_description_upper == upper(description)
  IN  IF \/ startswith(item_code_upper, "H-")
         \/ Contains(item_description_upper, "HAT")
         \/ Contains(item_description_upper, "CAP")
      THEN "Gorras"
      ELSE IF \/ startswith(item_code_upper, "GB-DOZ-")
              \/ Contains(item_description_upper, "GOLF BALL")
      THEN "Pelotas"
      ELSE IF startswith(item_code_upper, "G4-")
      THEN "Guantes"
      ELSE IF startswith(item_code_upper, "A-") \/ startswith(item_code_upper, "HC-")
      THEN "Accesorios"
      ELSE "Otros"

\* classify_item without its final return: None when no rule fires
classify_item_no_default(code, description) ==
  LET item_code_upper        == upper(code)
      item_description_upper == upper(description)
  IN  IF \/ startswith(item_code_upper, "GB-DOZ-")
         \/ Contains(item_description_upper, "GOLF BALL")
      THEN "Pelotas"
      ELSE IF \/ startswith(item_code_upper, "H-")
              \/ Contains(item_description_upper, "HAT")
              \/ Contains(item_description_upper, "CAP")
      THEN "Gorras"
      ELSE IF startswith(item_code_upper, "G4-")
      THEN "Guantes"
      ELSE IF startswith(item_code_upper, "A-") \/ startswith(item_code_upper, "HC-")
      THEN "Accesorios"
      ELSE None

\* classify_item(item_code, item_description)
classify_item(code, description) ==
  LET item_code_upper        == upper(code)
      item_description_upper == upper(description)
  IN  IF \/ startswith(item_code_upper, "GB-DOZ-")
         \/ Contains(item_description_upper, "GOLF BALL")
      THEN "Pelotas"
      ELSE IF \/ startswith(item_code_upper, "H-")
              \/ Contains(item_description_upper, "HAT")
              \/ Contains(item_description_upper, "CAP")
      THEN "Gorras"
      ELSE IF startswith(item_code_upper, "G4-")
      THEN "Guantes"
      ELSE IF startswith(item_code_upper, "A-") \/ startswith(item_code_upper, "HC-")
      THEN "Accesorios"
      ELSE "Otros"

(***************************************************************************)
(* Order of strings and sorting                                            *)
(***************************************************************************)
\* the characters of order IDs, shipment IDs and catalog codes by code point
CodePoints == " -0123456789ABCDEFGHIJKLMNOPQRSTUVWXYZ"

ord(c) == CHOOSE i \in 1..Len(CodePoints) : Ch(CodePoints, i) = c

RECURSIVE StrLess(_, _)
\* a < b on strings
StrLess(a, b) ==
  IF b = "" THEN FALSE
  ELSE IF a = "" THEN TRUE
  ELSE IF Ch(a, 1) = Ch(b, 1) THEN StrLess(SubSeq(a, 2, Len(a)), SubSeq(b, 2, Len(b)))
  ELSE ord(Ch(a, 1)) < ord(Ch(b, 1))

RECURSIVE KeyLess(_, _)
\* a < b on tuples of strings
KeyLess(a, b) ==
  IF b = <<>> THEN FALSE
  ELSE IF a = <<>> THEN TRUE
  ELSE IF Head(a) = Head(b) THEN KeyLess(Tail(a), Tail(b))
  ELSE StrLess(Head(a), Head(b))

\* a stable sort of rows by their keys: a row comes after the rows of a
\* smaller key and after the earlier rows of the same key
StableSort(rows, keys) ==
  LET rank(i) == 1 + Cardinality({ j \in 1..Len(rows) :
                                     \/ KeyLess(keys[j], keys[i])
                                     \/ (j < i /\ keys[j] = keys[i]) })
  IN  [ r \in 1..Len(rows) |-> rows[CHOOSE i \in 1..Len(rows) : rank(i) = r] ]

RECURSIVE sorted(_)
\* sorted(S) of a set of strings
sorted(S) ==
  IF S = {} THEN <<>>
  ELSE LET least == CHOOSE x \in S : \A y \in S \ {x} : StrLess(x, y)
       IN  <<least>> \o sorted(S \ {least})

\* the keys of sort_values(by=['Orden', 'Código'])
ByOrdenCodigo(rows) == [ i \in 1..Len(rows) |-> <<rows[i].Orden, rows[i].Codigo>> ]

\* the keys of sort_values(by='Código')
ByCodigo(rows) == [ i \in 1..Len(rows) |-> <<rows[i].Codigo>> ]

(***************************************************************************)
(* The report sections. A section document is modelled by its rows; its    *)
(* pages are inserted into the merged document by one insert_pdf, so it    *)
(* is one item of the merged document.                                     *)
(***************************************************************************)
\* a renderer returning None
NoDocument == [ kind |-> None ]

\* truth value of what a renderer returned
IsDocument(d) == d.kind # None

\* create_relations_table(relations)
create_relations_table(relations) ==
  LET filtered_relations ==
        SelectSeq(relations, LAMBDA rel : classify_item(rel.Codigo, rel.Descripcion) = "Otros")
  IN  IF relations = <<>> \/ filtered_relations = <<>> THEN NoDocument
      ELSE [ kind |-> "relations_table",
             rows |-> StableSort(filtered_relations, ByOrdenCodigo(filtered_relations)) ]

\* create_2day_shipping_page(two_day_sh_list)
create_2day_shipping_page(two_day) ==
  IF two_day = {} THEN NoDocument
  ELSE [ kind |-> "two_day", rows |-> sorted(two_day), total |-> Cardinality(two_day) ]

RECURSIVE SumOver(_, _, _)
\* the appearances of part_num added up over the orders oids
SumOver(order_data, oids, part_num) ==
  IF oids = {} THEN 0
  ELSE LET oid == CHOOSE o \in oids : TRUE
           pn  == order_data[oid].part_numbers
       IN  (IF part_num \in DOMAIN pn THEN pn[part_num] ELSE 0)
           + SumOver(order_data, oids \ {oid}, part_num)

\* part_appearances with the filter "Otros" keeping every catalog code
PartAppearances_bags_unfiltered(order_data, category_filter) ==
  LET kept == { k \in UNION { DOMAIN order_data[oid].part_numbers : oid \in DOMAIN order_data } :
                  /\ k \in KeySet
                  /\ \/ category_filter \in {None, "Otros"}
                     \/ classify_item(k, PART_DESCRIPTIONS[k]) = category_filter }
  IN  [ k \in kept |-> SumOver(order_data, DOMAIN order_data, k) ]

\* create_part_numbers_summary, lines 571-579: part_appearances; a
\* category_filter of None keeps every catalog code
PartAppearances(order_data, category_filter) ==
  LET kept == { k \in UNION { DOMAIN order_data[oid].part_numbers : oid \in DOMAIN order_data } :
                  /\ k \in KeySet
                  /\ \/ category_filter = None
                     \/ classify_item(k, PART_DESCRIPTIONS[k]) = category_filter }
  IN  [ k \in kept |-> SumOver(order_data, DOMAIN order_data, k) ]

RECURSIVE SumValues(_)
\* sum(d.values())
SumValues(d) ==
  IF DOMAIN d = {} THEN 0
  ELSE LET k == CHOOSE x \in DOMAIN d : TRUE
       IN  d[k] + SumValues([ x \in DOMAIN d \ {k} |-> d[x] ])

\* create_part_numbers_summary(order_data, category_filter)
create_part_numbers_summary(order_data, category_filter) ==
  LET part_appearances == PartAppearances(order_data, category_filter)
      sorted_parts == sorted(DOMAIN part_appearances)
  IN  IF DOMAIN part_appearances = {} THEN NoDocument
      ELSE [ kind     |-> "summary",
             category |-> category_filter,
             rows     |-> [ i \in 1..Len(sorted_parts) |->
                              <<sorted_parts[i], part_appearances[sorted_parts[i]]>> ],
             total    |-> SumValues(part_appearances) ]

RECURSIVE FirstPerCode(_)
\* the relations whose code no earlier relation of the list carries
FirstPerCode(relations) ==
  IF relations = <<>> THEN <<>>
  ELSE LET before == FirstPerCode(SubSeq(relations, 1, Len(relations) - 1))
           rel    == relations[Len(relations)]
       IN  IF \E j \in 1..Len(before) : before[j].Codigo = rel.Codigo
           THEN before ELSE Append(before, rel)

\* a row of a listing: code, description and the first shipment ID seen
ListingRow(rel) == [ Codigo |-> rel.Codigo, Descripcion |-> rel.Descripcion, SH |-> rel.SH ]

\* create_category_table(relations, category_name)
create_category_table(relations, category_name) ==
  LET in_category ==
        SelectSeq(relations, LAMBDA rel : classify_item(rel.Codigo, rel.Descripcion) = category_name)
      firsts == FirstPerCode(in_category)
      category_data == [ i \in 1..Len(firsts) |-> ListingRow(firsts[i]) ]
  IN  IF category_data = <<>> THEN NoDocument
      ELSE [ kind     |-> "category_table",
             category |-> category_name,
             rows     |-> StableSort(category_data, ByCodigo(category_data)) ]

\* create_gloves_table(relations)
create_gloves_table(relations) ==
  LET gloves_data == SelectSeq(relations, LAMBDA rel : startswith(rel.Codigo, "G4-"))
      firsts == FirstPerCode(gloves_data)
      unique_gloves == [ i \in 1..Len(firsts) |-> ListingRow(firsts[i]) ]
  IN  IF gloves_data = <<>> THEN NoDocument
      ELSE [ kind |-> "gloves_table", rows |-> StableSort(unique_gloves, ByCodigo(unique_gloves)) ]

\* str.strip()
RECURSIVE strip(_)
strip(s) ==
  IF s = "" THEN ""
  ELSE IF IsSpace(Ch(s, 1)) THEN strip(SubSeq(s, 2, Len(s)))
  ELSE IF IsSpace(Ch(s, Len(s))) THEN strip(SubSeq(s, 1, Len(s) - 1))
  ELSE s

shipping_methods ==
  << "GU 9", "PICKUP", "PO BOX", "AK 9", "NO SHIPMENT", "GENERAL DELIVERY",
     "PR 0", "HAND DELIVER", "RIO BAYAMON", "HI 9", "OVERNIGHT" >>

\* the shipping method read from the text of the first page of the order
ShippingMethodOf_from_pages(meta) ==
  IF meta.pages # <<>> THEN strip(upper(meta.pages[1].text)) ELSE ""

\* str(meta.get("shipping_method", "")).upper().strip()
ShippingMethodOf(meta) ==
  IF "shipping_method" \in DOMAIN meta THEN strip(upper(meta.shipping_method)) ELSE ""

\* create_shipping_methods_summary(order_meta): the methods counted at least
\* once; the document has a page only when there is one
create_shipping_methods_summary(order_meta) ==
  LET count(method) ==
        Cardinality({ oid \in DOMAIN order_meta :
                        Contains(ShippingMethodOf(order_meta[oid]), method) })
      counted == { i \in 1..Len(shipping_methods) : count(shipping_methods[i]) > 0 }
  IN  [ kind       |-> "shipping_summary",
        rows       |-> [ m \in { shipping_methods[i] : i \in counted } |-> count(m) ],
        page_count |-> IF counted = {} THEN 0 ELSE 1 ]

\* create_summary_page(order_data, build_keys, shipment_keys, pickup_flag):
\* the lines of the page, each a label and its number
create_summary_page(order_data, build_keys, shipment_keys, flag) ==
  LET all_orders      == build_keys \cup shipment_keys
      unmatched_build == build_keys \ shipment_keys
      unmatched_ship  == shipment_keys \ build_keys
      pickup_orders   == IF flag THEN { oid \in all_orders : order_data[oid].pickup } ELSE {}
      lines == << <<"Total Unique Orders", Cardinality(all_orders)>>,
                  <<"Orders with Build Sheets Only", Cardinality(unmatched_build)>>,
                  <<"Orders with Shipments Only", Cardinality(unmatched_ship)>>,
                  <<"Orders with Both",
                    Cardinality(all_orders) - Cardinality(unmatched_build)
                      - Cardinality(unmatched_ship)>> >>
  IN  [ kind  |-> "summary_page",
        lines |-> IF flag
                  THEN Append(lines, <<"Customer Pickup Orders", Cardinality(pickup_orders)>>)
                  ELSE lines ]

RECURSIVE get_build_order_list_unseen(_)
\* the order list without the set of the IDs already seen
get_build_order_list_unseen(pages) ==
  IF pages = <<>> THEN <<>>
  ELSE LET order == get_build_order_list_unseen(SubSeq(pages, 1, Len(pages) - 1))
           oid   == pages[Len(pages)].order_id
       IN  IF Truthy(oid) THEN Append(order, oid) ELSE order

RECURSIVE get_build_order_list(_)
\* get_build_order_list(build_pages)
get_build_order_list(pages) ==
  IF pages = <<>> THEN <<>>
  ELSE LET order == get_build_order_list(SubSeq(pages, 1, Len(pages) - 1))
           oid   == pages[Len(pages)].order_id
       IN  IF Truthy(oid) /\ ~ \E i \in 1..Len(order) : order[i] = oid
           THEN Append(order, oid) ELSE order

\* insert_divider_page(doc, label)
insert_divider_page(d, label) ==
  Append(d, [ kind |-> "divider", text |-> "=== " \o upper(label) \o " ===" ])

\* doc.insert_pdf(section) when the renderer returned a document
insert_section(d, section) == IF IsDocument(section) THEN Append(d, section) ELSE d

\* the divider page inserted whether or not the renderer returned a document
insert_section_and_divider_unguarded(d, section, label) ==
  insert_divider_page(IF IsDocument(section) THEN Append(d, section) ELSE d, label)

\* doc.insert_pdf(section) and the divider page after it, when the renderer
\* returned a document
insert_section_and_divider(d, section, label) ==
  IF IsDocument(section) THEN insert_divider_page(Append(d, section), label) ELSE d

\* map.get(oid, {}).get("pages", [])
PagesIn(map, oid) == IF oid \in DOMAIN map THEN map[oid].pages ELSE <<>>

\* doc.insert_pdf(p["parent"], from_page=p["number"], to_page=p["number"])
\* for every page record of pages
OrderPages(pages, parent) ==
  [ i \in 1..Len(pages) |->
      [ kind |-> "order_page", parent |-> parent, number |-> pages[i].number,
        order_id |-> pages[i].order_id ] ]

RECURSIVE insert_order_pages(_, _, _, _)
\* merge_documents.insert_order_pages(order_list)
insert_order_pages(d, order_list, b_map, s_map) ==
  IF order_list = <<>> THEN d
  ELSE LET oid == Head(order_list)
       IN  insert_order_pages(d \o OrderPages(PagesIn(b_map, oid), "build")
                                \o OrderPages(PagesIn(s_map, oid), "ship"),
                              Tail(order_list), b_map, s_map)

(***************************************************************************)
(* Page texts extract_part_numbers is applied to                           *)
(***************************************************************************)
MaxPieces == 3

Pieces == { "B-PG-172", "B-PG-172-BGRY", "H-USMC-ADJ", "b-pg-244", " ", "-", "X" }

RECURSIVE TextsOf(_)
TextsOf(n) ==
  IF n = 0 THEN {""}
  ELSE LET shorter == TextsOf(n - 1) IN shorter \cup { t \o p : t \in shorter, p \in Pieces }

\* every catalog code injected verbatim as a standalone token
InjectedTexts == { pre \o k \o post : k \in KeySet, pre \in {"", "QTY "}, post \in {"", " ea"} }

PageTexts == TextsOf(MaxPieces) \cup InjectedTexts

vars == << pc, text, part_counts, matched_ranges, counted_matches,
          doc, classify_pickup, page_num, all_pages_data, all_relations,
          two_day_sh_list, pages_folded, order_map,
          item_code, item_description, category, previous, calls,
          identifiers,
          build_doc, ship_doc, pickup_flag, build_pages, ship_pages, all_two_day,
          all_meta, build_map, ship_map, build_order, summary, pickups, merged >>

classify_vars == <<item_code, item_description, category, previous, calls>>

ClassifyIdle ==
  /\ item_code = ""
  /\ item_description = ""
  /\ category = None
  /\ previous = None
  /\ calls = 0

identify_vars == <<identifiers>>

IdentifyIdle == identifiers = <<>>

merge_vars == << build_doc, ship_doc, pickup_flag, build_pages, ship_pages, all_two_day,
                all_meta, build_map, ship_map, build_order, summary, pickups, merged >>

MergeIdle ==
  /\ build_doc = <<>>
  /\ ship_doc = <<>>
  /\ pickup_flag = FALSE
  /\ build_pages = <<>>
  /\ ship_pages = <<>>
  /\ all_two_day = {}
  /\ all_meta = <<>>
  /\ build_map = <<>>
  /\ ship_map = <<>>
  /\ build_order = <<>>
  /\ summary = NoDocument
  /\ pickups = <<>>
  /\ merged = <<>>

extract_vars == <<text, part_counts, matched_ranges, counted_matches>>

pipeline_vars == << doc, classify_pickup, page_num, all_pages_data, all_relations,
                   two_day_sh_list, pages_folded, order_map >>

ExtractIdle ==
  /\ text = ""
  /\ part_counts = <<>>
  /\ matched_ranges = <<>>
  /\ counted_matches = <<>>

PipelineIdle ==
  /\ doc = <<>>
  /\ classify_pickup = FALSE
  /\ page_num = 0
  /\ all_pages_data = <<>>
  /\ all_relations = <<>>
  /\ two_day_sh_list = {}
  /\ pages_folded = 0
  /\ order_map = <<>>

(***************************************************************************)
(* Specification of extract_part_numbers on one page text                  *)
(***************************************************************************)
InitExtract ==
  /\ pc = "extract"
  /\ text \in PageTexts
  /\ part_counts = <<>>
  /\ matched_ranges = <<>>
  /\ counted_matches = <<>>
  /\ PipelineIdle
  /\ ClassifyIdle
  /\ IdentifyIdle
  /\ MergeIdle

\* lines 28-111: the loop over the catalog keys
ScanCatalog ==
  /\ pc = "extract"
  /\ LET r == main_search(text)
     IN  /\ part_counts' = r.counts
         /\ matched_ranges' = r.ranges
         /\ counted_matches' = r.credits
  /\ pc' = "gloves"
  /\ UNCHANGED <<text, pipeline_vars, classify_vars, identify_vars, merge_vars>>

\* lines 114-124: the glove search and the return
ScanGloves ==
  /\ pc = "gloves"
  /\ part_counts' = glove_search(part_counts, text)
  /\ pc' = "returned"
  /\ UNCHANGED <<text, matched_ranges, counted_matches, pipeline_vars, classify_vars, identify_vars, merge_vars>>

NextExtract == ScanCatalog \/ ScanGloves

SpecExtract == InitExtract /\ [][NextExtract]_vars

(***************************************************************************)
(* Specification of extract_identifiers on one page text                   *)
(***************************************************************************)
MaxIdPieces == 3

IdPieces == { "USS", "SO-", "SOC", "12", "-", " AMZ-7", "X", "SH12345", "SH123", " " }

RECURSIVE IdTextsOf(_)
IdTextsOf(n) ==
  IF n = 0 THEN {""}
  ELSE LET shorter == IdTextsOf(n - 1) IN shorter \cup { t \o p : t \in shorter, p \in IdPieces }

InitIdentify ==
  /\ pc = "identify"
  /\ text \in IdTextsOf(MaxIdPieces)
  /\ identifiers = <<>>
  /\ part_counts = <<>>
  /\ matched_ranges = <<>>
  /\ counted_matches = <<>>
  /\ PipelineIdle
  /\ ClassifyIdle
  /\ MergeIdle

\* one call of extract_identifiers(text)
Identify ==
  /\ pc = "identify"
  /\ identifiers' = extract_identifiers(text)
  /\ pc' = "identified"
  /\ UNCHANGED <<extract_vars, pipeline_vars, classify_vars, merge_vars>>

NextIdentify == Identify

SpecIdentify == InitIdentify /\ [][NextIdentify]_vars

(***************************************************************************)
(* Specification of the pipeline: parse_pdf on a document, then            *)
(* group_by_order on its page records                                      *)
(***************************************************************************)
MaxPages == 3

SamplePages ==
  { "Order SO-100 SH12345 B-PG-244 Customer Pickup",
    "continued B-PG-244 G4-652011019LHL-BLK cust pickup",
    "SO-200 B-PG-244 x B-PG-244",
    "USS100 SH123456 Shipping Method: 2 day GB-DOZ-XTREME G4-652011019LHL-BLK",
    "SO-100 SH12345 b-pg-172-bgry",
    "" }

\* pages of the two uploaded documents; the empty text is a page without text
UploadPages ==
  { "SO-100 SH12345 B-PG-244 Customer Pickup",
    "USS100 SH123456 Shipping Method: 2 day GB-DOZ-XTREME",
    "SO-200 SH20000 H-USMC-ADJ",
    "SO-100 SH12345 G4-652011019LHL-BLK",
    "AMZ-7 SH70000 A-DUO-PXG",
    "",
    "SO-300 SH30000 Shipping Method: 2 day B-PG-244 GB-DOZ-XTREME H-USMC-ADJ G4-652011019LHL-BLK A-DUO-PXG" }

RECURSIVE DocsOf(_)
DocsOf(n) ==
  IF n = 0 THEN {<<>>}
  ELSE LET shorter == DocsOf(n - 1)
       IN  shorter \cup { Append(d, t) : d \in shorter, t \in SamplePages }

\* page_data(0, t) and the relations of the page, tabulated per sample page
ParsedSamples == [ t \in SamplePages \cup UploadPages |-> page_data(0, t) ]

SampleRelations ==
  [ t \in SamplePages \cup UploadPages |->
      extract_relations(t, ParsedSamples[t].order_id, ParsedSamples[t].shipment_id) ]

Init ==
  /\ pc = "parse"
  /\ doc \in DocsOf(MaxPages)
  /\ classify_pickup \in BOOLEAN
  /\ page_num = 0
  /\ all_pages_data = <<>>
  /\ all_relations = <<>>
  /\ two_day_sh_list = {}
  /\ pages_folded = 0
  /\ order_map = <<>>
  /\ ExtractIdle
  /\ ClassifyIdle
  /\ IdentifyIdle
  /\ MergeIdle

\* parse_pdf, lines 182-204: one iteration of the loop over the pages
ParsePage ==
  /\ pc = "parse"
  /\ page_num < Len(doc)
  /\ LET t    == doc[page_num + 1]
         page == [ParsedSamples[t] EXCEPT !.number = page_num]
     IN  /\ two_day_sh_list' =
               IF Truthy(page.shipment_id) /\ shipping_2day_search(t)
               THEN two_day_sh_list \cup {page.shipment_id} ELSE two_day_sh_list
         /\ all_pages_data' = Append(all_pages_data, page)
         /\ all_relations' =
               IF Truthy(page.order_id) /\ Truthy(page.shipment_id)
               THEN all_relations \o SampleRelations[t]
               ELSE all_relations
  /\ page_num' = page_num + 1
  /\ UNCHANGED <<pc, doc, classify_pickup, pages_folded, order_map, extract_vars, classify_vars, identify_vars, merge_vars>>

\* parse_pdf, line 206: the return; group_by_order starts on the page records
ParseReturn ==
  /\ pc = "parse"
  /\ page_num = Len(doc)
  /\ pc' = "group"
  /\ UNCHANGED <<pipeline_vars, extract_vars, classify_vars, identify_vars, merge_vars>>

\* group_by_order, lines 552-562: one iteration of the loop over the pages
GroupPage ==
  /\ pc = "group"
  /\ pages_folded < Len(all_pages_data)
  /\ order_map' = group_page(order_map, all_pages_data[pages_folded + 1], classify_pickup)
  /\ pages_folded' = pages_folded + 1
  /\ UNCHANGED << pc, doc, classify_pickup, page_num, all_pages_data, all_relations,
                  two_day_sh_list, extract_vars, classify_vars, identify_vars, merge_vars >>

\* group_by_order, line 563: the return
GroupReturn ==
  /\ pc = "group"
  /\ pages_folded = Len(all_pages_data)
  /\ pc' = "done"
  /\ UNCHANGED <<pipeline_vars, extract_vars, classify_vars, identify_vars, merge_vars>>

Next == ParsePage \/ ParseReturn \/ GroupPage \/ GroupReturn

Spec == Init /\ [][Next]_vars

(***************************************************************************)
(* Specification of classify_item: calls with one pair of arguments        *)
(***************************************************************************)
MaxCalls == 2

SampleCodes ==
  { "", "GB-DOZ-XTREME", "gb-doz-xttr-wht", "GB-DOZ", "H-USMC-ADJ", "h-usmc-adj",
    "HX-1", "G4-652011019LHL-BLK", "g4-1", "A-DUO-PXG", "a-duo-pxg", "HC-JT-1053-KIT",
    "hc-1", "B-PG-172", "b-pg-172", "XGB-DOZ-1", "AH-1" }

SampleDescriptions ==
  { "", "Xtreme Golf Ball - Dozen", "golf ball", "Golf Balls", "Ball Marker",
    "Tour Bush Hat", "hat", "Trucker Cap", "cap clip", "Carry Stand Bag",
    "Players Glove", "PXG Wedge Brush" }

ClassifyInputs ==
  (SampleCodes \X SampleDescriptions)
  \cup { <<k, PART_DESCRIPTIONS[k]>> : k \in KeySet }

InitClassify ==
  /\ pc = "classify"
  /\ \E in \in ClassifyInputs : item_code = in[1] /\ item_description = in[2]
  /\ category = None
  /\ previous = None
  /\ calls = 0
  /\ ExtractIdle
  /\ PipelineIdle
  /\ IdentifyIdle
  /\ MergeIdle

\* one call of classify_item(item_code, item_description)
Classify ==
  /\ pc = "classify"
  /\ calls < MaxCalls
  /\ previous' = category
  /\ category' = classify_item(item_code, item_description)
  /\ calls' = calls + 1
  /\ UNCHANGED <<pc, item_code, item_description, extract_vars, pipeline_vars, identify_vars, merge_vars>>

NextClassify == Classify

SpecClassify == InitClassify /\ [][NextClassify]_vars

(***************************************************************************)
(* Specification of the three functions called one after another on        *)
(* boundary inputs: extract_part_numbers, classify_item, group_by_order     *)
(***************************************************************************)
MaxCallPages == 1

CallTexts == { "", " ", "x", "B-PG-244" }

CallItems == { <<"", "">>, <<"", "golf ball">>, <<"H-1", "">>, <<"B-PG-172", "Carry Stand Bag">> }

\* the page records parse_pdf makes of the page texts d
PagesOf(d) == [ i \in 1..Len(d) |-> [ParsedSamples[d[i]] EXCEPT !.number = i - 1] ]

InitCalls ==
  /\ pc = "call_extract"
  /\ text \in CallTexts
  /\ \E in \in CallItems : item_code = in[1] /\ item_description = in[2]
  /\ \E d \in DocsOf(MaxCallPages) : all_pages_data = PagesOf(d)
  /\ classify_pickup \in BOOLEAN
  /\ part_counts = <<>>
  /\ matched_ranges = <<>>
  /\ counted_matches = <<>>
  /\ category = None
  /\ previous = None
  /\ calls = 0
  /\ doc = <<>>
  /\ page_num = 0
  /\ all_relations = <<>>
  /\ two_day_sh_list = {}
  /\ pages_folded = 0
  /\ order_map = <<>>
  /\ IdentifyIdle
  /\ MergeIdle

\* extract_part_numbers(text)
CallExtract ==
  /\ pc = "call_extract"
  /\ part_counts' = extract_part_numbers(text)
  /\ pc' = "call_classify"
  /\ UNCHANGED <<text, matched_ranges, counted_matches, pipeline_vars, classify_vars, identify_vars, merge_vars>>

\* classify_item(item_code, item_description)
CallClassify ==
  /\ pc = "call_classify"
  /\ previous' = category
  /\ category' = classify_item(item_code, item_description)
  /\ calls' = calls + 1
  /\ pc' = "call_group"
  /\ UNCHANGED <<item_code, item_description, extract_vars, pipeline_vars, identify_vars, merge_vars>>

\* group_by_order(all_pages_data, classify_pickup)
CallGroup ==
  /\ pc = "call_group"
  /\ order_map' = group_by_order(all_pages_data, classify_pickup)
  /\ pages_folded' = Len(all_pages_data)
  /\ pc' = "called"
  /\ UNCHANGED << doc, classify_pickup, page_num, all_pages_data, all_relations,
                  two_day_sh_list, extract_vars, classify_vars, identify_vars, merge_vars >>

NextCalls == CallExtract \/ CallClassify \/ CallGroup

SpecCalls == InitCalls /\ [][NextCalls]_vars

(***************************************************************************)
(* Specification of the main script: both uploads are parsed, the button   *)
(* is pressed, merge_documents builds the merged document section by       *)
(* section and the summary page is put in front of it                      *)
(***************************************************************************)
MaxBuildPages == 2

MaxShipPages == 1

RECURSIVE UploadsOf(_)
\* the documents of one to n pages
UploadsOf(n) ==
  IF n = 1 THEN { <<t>> : t \in UploadPages }
  ELSE LET shorter == UploadsOf(n - 1)
       IN  shorter \cup { Append(d, t) : d \in shorter, t \in UploadPages }

\* parse_pdf, lines 182-204: one iteration of the loop over the pages; acc is
\* what the pages before gave, data the record of the page with text t and
\* relations the relations found on it
parse_page(acc, n, t, data, relations) ==
  [ pages     |-> Append(acc.pages, [data EXCEPT !.number = n]),
    relations |-> IF Truthy(data.order_id) /\ Truthy(data.shipment_id)
                  THEN acc.relations \o relations ELSE acc.relations,
    two_day   |-> IF Truthy(data.shipment_id) /\ shipping_2day_search(t)
                  THEN acc.two_day \cup {data.shipment_id} ELSE acc.two_day ]

RECURSIVE parse_pages(_, _, _)
\* parse_pdf, lines 176-206: the loop over the pages of d, the per-page
\* results read from the tables parsed and related
parse_pages(d, parsed, related) ==
  IF d = <<>> THEN [ pages |-> <<>>, relations |-> <<>>, two_day |-> {} ]
  ELSE parse_page(parse_pages(SubSeq(d, 1, Len(d) - 1), parsed, related),
                  Len(d) - 1, d[Len(d)], parsed[d[Len(d)]], related[d[Len(d)]])

\* parse_pdf(pdf_bytes) on a document with the page texts d
parse_pdf(d) == parse_pages(d, ParsedSamples, SampleRelations)

InitMerge ==
  /\ pc = "uploaded"
  /\ build_doc \in UploadsOf(MaxBuildPages)
  /\ ship_doc \in UploadsOf(MaxShipPages)
  /\ pickup_flag \in BOOLEAN
  /\ build_pages = <<>>
  /\ ship_pages = <<>>
  /\ all_two_day = {}
  /\ all_meta = <<>>
  /\ build_map = <<>>
  /\ ship_map = <<>>
  /\ build_order = <<>>
  /\ summary = NoDocument
  /\ pickups = <<>>
  /\ merged = <<>>
  /\ ExtractIdle
  /\ PipelineIdle
  /\ ClassifyIdle
  /\ IdentifyIdle

idle_in_merge == << text, part_counts, matched_ranges, counted_matches, doc, classify_pickup,
                   page_num, all_pages_data, two_day_sh_list, pages_folded, order_map,
                   classify_vars, identify_vars >>

\* main script, lines 1117-1123: the results of the two documents combined
CombineUploads(build, ship) ==
  /\ build_pages' = build.pages
  /\ ship_pages' = ship.pages
  /\ all_relations' = build.relations \o ship.relations
  /\ all_two_day' = build.two_day \cup ship.two_day
  /\ all_meta' = group_by_order(build.pages \o ship.pages, pickup_flag)

\* main script, lines 1112-1123: both documents are uploaded and parsed
ParseUploads ==
  /\ pc = "uploaded"
  /\ CombineUploads(parse_pdf(build_doc), parse_pdf(ship_doc))
  /\ pc' = "parsed"
  /\ UNCHANGED << build_doc, ship_doc, pickup_flag, build_map, ship_map, build_order,
                  summary, pickups, merged, idle_in_merge >>

\* main script, lines 1155-1160: the button is pressed, the maps, the order
\* list and the summary page are made
Generate ==
  /\ pc = "parsed"
  /\ build_map' = group_by_order(build_pages, FALSE)
  /\ ship_map' = group_by_order(ship_pages, FALSE)
  /\ build_order' = get_build_order_list(build_pages)
  /\ summary' = create_summary_page(all_meta, DOMAIN build_map', DOMAIN ship_map', pickup_flag)
  /\ pc' = "merge"
  /\ UNCHANGED << build_doc, ship_doc, pickup_flag, build_pages, ship_pages, all_relations,
                  all_two_day, all_meta, pickups, merged, idle_in_merge >>

\* a step of merge_documents that changes the output document only
MergeStep(from, to, out) ==
  /\ pc = from
  /\ merged' = out
  /\ pc' = to
  /\ UNCHANGED << build_doc, ship_doc, pickup_flag, build_pages, ship_pages, all_relations,
                  all_two_day, all_meta, build_map, ship_map, build_order, summary,
                  pickups, idle_in_merge >>

\* merge_documents, lines 989-996: the empty document and the pickup orders
MergePickups ==
  /\ pc = "merge"
  /\ merged' = <<>>
  /\ pickups' = IF pickup_flag
                THEN SelectSeq(build_order,
                               LAMBDA oid : oid \in DOMAIN all_meta /\ all_meta[oid].pickup)
                ELSE <<>>
  /\ pc' = "section_1"
  /\ UNCHANGED << build_doc, ship_doc, pickup_flag, build_pages, ship_pages, all_relations,
                  all_two_day, all_meta, build_map, ship_map, build_order, summary,
                  idle_in_merge >>

\* lines 998-1003, section 1: the relations table
InsertRelationsTable ==
  MergeStep("section_1", "section_2",
            IF all_relations # <<>>
            THEN insert_section_and_divider(merged, create_relations_table(all_relations),
                                            "Resumen de Apariciones por Categoría")
            ELSE merged)

\* lines 1005-1008, section 2: appearance summary of the bags
InsertSummaryBags ==
  MergeStep("section_2", "section_3",
            insert_section(merged, create_part_numbers_summary(all_meta, "Otros")))

\* lines 1010-1013, section 3: appearance summary of the balls
InsertSummaryBalls ==
  MergeStep("section_3", "section_4",
            insert_section(merged, create_part_numbers_summary(all_meta, "Pelotas")))

\* lines 1015-1018, section 4: appearance summary of the hats
InsertSummaryHats ==
  MergeStep("section_4", "section_5",
            insert_section(merged, create_part_numbers_summary(all_meta, "Gorras")))

\* lines 1020-1024, section 5: appearance summary of the accessories
InsertSummaryAccessories ==
  MergeStep("section_5", "section_5_5",
            insert_section(merged, create_part_numbers_summary(all_meta, "Accesorios")))

\* lines 1026-1031, section 5.5: appearance summary of the gloves
InsertSummaryGloves ==
  MergeStep("section_5_5", "shipping",
            insert_section_and_divider(merged, create_part_numbers_summary(all_meta, "Guantes"),
                                       "Listado de Pelotas por Relación"))

\* lines 1033-1038: the shipping-method summary
InsertShippingSummary ==
  MergeStep("shipping", "section_6",
            LET shipping_summary == create_shipping_methods_summary(all_meta)
            IN  IF shipping_summary.page_count > 0
                THEN insert_divider_page(Append(merged, shipping_summary),
                                         "Órdenes con Shipping Method: 2 Day")
                ELSE merged)

\* the two-day shipping page inserted at the start of the document
InsertTwoDayPage_at_start ==
  MergeStep("section_6", "section_7",
            LET two_day_page == create_2day_shipping_page(all_two_day)
            IN  IF IsDocument(two_day_page)
                THEN insert_divider_page(<<two_day_page>>, "Listado de Pelotas por Relación")
                     \o merged
                ELSE merged)

\* lines 1040-1044, section 6: the two-day shipping page
InsertTwoDayPage ==
  MergeStep("section_6", "section_7",
            insert_section_and_divider(merged, create_2day_shipping_page(all_two_day),
                                       "Listado de Pelotas por Relación"))

\* lines 1046-1050, section 7: listing of the balls
InsertListingBalls ==
  MergeStep("section_7", "section_8",
            insert_section_and_divider(merged, create_category_table(all_relations, "Pelotas"),
                                       "Listado de Gorras por Relación"))

\* lines 1052-1056, section 8: listing of the hats
InsertListingHats ==
  MergeStep("section_8", "section_8_5",
            insert_section_and_divider(merged, create_category_table(all_relations, "Gorras"),
                                       "Listado de Accesorios por Relación"))

\* lines 1058-1062, section 8.5: listing of the gloves
InsertListingGloves ==
  MergeStep("section_8_5", "section_9",
            insert_section_and_divider(merged, create_gloves_table(all_relations),
                                       "Listado de Accesorios por Relación"))

\* lines 1064-1068, section 9: listing of the accessories
InsertListingAccessories ==
  MergeStep("section_9", "pickup_orders",
            insert_section_and_divider(merged, create_category_table(all_relations, "Accesorios"),
                                       "Documentos Principales"))

\* lines 1090-1093: the pages of the pickup orders
InsertPickupOrders ==
  MergeStep("pickup_orders", "other_orders",
            IF pickup_flag /\ pickups # <<>>
            THEN insert_order_pages(insert_divider_page(merged, "Customer Pickup Orders"),
                                    pickups, build_map, ship_map)
            ELSE merged)

\* lines 1095-1102: the pages of the other orders, and the return
InsertOtherOrders ==
  MergeStep("other_orders", "merged",
            LET others == SelectSeq(build_order,
                                    LAMBDA oid : ~ \E i \in 1..Len(pickups) : pickups[i] = oid)
            IN  IF others # <<>>
                THEN insert_order_pages(insert_divider_page(merged, "Other Orders"),
                                        others, build_map, ship_map)
                ELSE merged)

\* main script, lines 1163-1165: the summary page is put at the start
InsertSummaryPage ==
  MergeStep("merged", "download", <<summary>> \o merged)

NextMerge ==
  \/ ParseUploads
  \/ Generate
  \/ MergePickups
  \/ InsertRelationsTable
  \/ InsertSummaryBags
  \/ InsertSummaryBalls
  \/ InsertSummaryHats
  \/ InsertSummaryAccessories
  \/ InsertSummaryGloves
  \/ InsertShippingSummary
  \/ InsertTwoDayPage
  \/ InsertListingBalls
  \/ InsertListingHats
  \/ InsertListingGloves
  \/ InsertListingAccessories
  \/ InsertPickupOrders
  \/ InsertOtherOrders
  \/ InsertSummaryPage

SpecMerge == InitMerge /\ [][NextMerge]_vars

(***************************************************************************)
(* Properties of extract_part_numbers                                      *)
(***************************************************************************)
\* the 0-based offsets at which k occurs in s
Offsets(s, k) == { o \in 0..(Len(s) - Len(k)) : LitAt(s, o, k) }

\* k occurs at offset o as a delimited token: no word character before or after it
Delimited(s, o, k) ==
  /\ LitAt(s, o, k)
  /\ o = 0 \/ ~ IsWord(Ch(s, o))
  /\ o + Len(k) = Len(s) \/ ~ IsWord(Ch(s, o + Len(k) + 1))

\* the spans of the whitespace-delimited tokens of s
TokenSpans(s) ==
  { <<a, RunEnd(s, a, SpaceChars)>> :
      a \in { o \in 0..(Len(s) - 1) :
                ~ IsSpace(Ch(s, o + 1)) /\ (o = 0 \/ IsSpace(Ch(s, o))) } }

\* <<S, L>>: catalog code S is a proper prefix of catalog code L
PrefixPairs == { pr \in KeySet \X KeySet : pr[1] # pr[2] /\ startswith(pr[2], pr[1]) }

Returned == pc = "returned"

\* C1 (as claimed): whenever a catalog code L occurs as a delimited token and
\* its shorter catalog prefix S occurs nowhere but at such occurrences of L,
\* the result holds L with value 1 and does not hold S.
C1_LongestMatchValueOne ==
  Returned =>
    LET u == upper(text) IN
    \A pr \in PrefixPairs :
      ( /\ \E o \in Offsets(u, pr[2]) : Delimited(u, o, pr[2])
        /\ \A o \in Offsets(u, pr[1]) : Delimited(u, o, pr[2]) )
      => /\ pr[2] \in DOMAIN part_counts
         /\ part_counts[pr[2]] = 1
         /\ pr[1] \notin DOMAIN part_counts

\* C2 (as claimed): every value of the returned dictionary is exactly 1, also
\* when the code occurs at several independent positions of the page.
C2_PresenceNotFrequency ==
  Returned => \A k \in DOMAIN part_counts : part_counts[k] = 1

\* the token at span sp is catalog code c, and it is the only token of the
\* page that contains a catalog code
RoundTripInput(u, sp, c) ==
  /\ SubSeq(u, sp[1] + 1, sp[2]) = c
  /\ c \in KeySet
  /\ \A other \in TokenSpans(u) \ {sp} :
       \A k \in KeySet : ~ Contains(SubSeq(u, other[1] + 1, other[2]), k)

\* C4: round trip on the catalog: a page that contains catalog code c once as
\* a standalone whitespace-delimited token and no other catalog code makes
\* extract_part_numbers return c with value exactly 1 (bare prefix codes and
\* glove codes included).
C4_RoundTrip ==
  Returned =>
    LET u == upper(text) IN
    \A sp \in TokenSpans(u) :
      LET c == SubSeq(u, sp[1] + 1, sp[2]) IN
      RoundTripInput(u, sp, c) => c \in DOMAIN part_counts /\ part_counts[c] = 1

\* a glove code was injected between other words and came back with count 1
C4_Witness ==
  /\ Returned
  /\ text = "QTY G4-652011019LHL-BLK ea"
  /\ RoundTripInput(upper(text), <<4, 23>>, "G4-652011019LHL-BLK")
  /\ part_counts = ("G4-652011019LHL-BLK" :> 1)

\* C5 (as claimed): every match that is counted is a delimited token: the
\* characters right before and right after the code are not word characters.
C5_DelimitedTokensOnly ==
  Returned =>
    LET u == upper(text) IN
    \A i \in 1..Len(counted_matches) :
      Delimited(u, counted_matches[i][2], counted_matches[i][1])

\* C6 (as claimed): every occurrence of a catalog code that starts at a word
\* boundary is counted for exactly one code, and it is counted for another
\* code than its own only when that code is a longer catalog code that
\* starts with it and occurs at the same position.
C6_ExactShadowing ==
  Returned =>
    LET u == upper(text) IN
    \A k \in KeySet : \A o \in Offsets(u, k) :
      WordBoundary(u, o) =>
        LET at == { i \in 1..Len(counted_matches) : counted_matches[i][2] = o }
        IN  /\ Cardinality(at) = 1
            /\ \A i \in at :
                 \/ counted_matches[i][1] = k
                 \/ <<k, counted_matches[i][1]>> \in PrefixPairs

(***************************************************************************)
(* Properties of parse_pdf and group_by_order                              *)
(***************************************************************************)
Max(S) == CHOOSE x \in S : \A y \in S : y <= x

\* C3 (as claimed): a page whose text yields no order ID gets, in its page
\* record, the order ID of the closest earlier page whose text yields one.
C3_CarryForward ==
  \A i \in 1..Len(all_pages_data) :
    LET earlier == { j \in 1..(i - 1) : extract_identifiers(doc[j])[1] # None }
    IN  (extract_identifiers(doc[i])[1] = None /\ earlier # {})
        => all_pages_data[i].order_id = extract_identifiers(doc[Max(earlier)])[1]

\* the whitespace-delimited tokens of s
Tokens(s) == { SubSeq(s, sp[1] + 1, sp[2]) : sp \in TokenSpans(s) }

\* C7 (as claimed): when every one of the N pages of an order contains
\* catalog code X as a token, the order's part_numbers[X] is N.
C7_SumOfPresence ==
  pc = "done" =>
    \A oid \in DOMAIN order_map :
      LET ps == order_map[oid].pages
          pn == order_map[oid].part_numbers
      IN  \A X \in KeySet \cap Tokens(upper(ps[1].text)) :
            (\A i \in 1..Len(ps) : X \in Tokens(upper(ps[i].text)))
            => X \in DOMAIN pn /\ pn[X] = Len(ps)

\* the page records folded so far
Folded == SubSeq(all_pages_data, 1, pages_folded)

CountIn(page, k) == IF k \in DOMAIN page.part_numbers THEN page.part_numbers[k] ELSE 0

RECURSIVE SumCounts(_, _)
SumCounts(ps, k) == IF ps = <<>> THEN 0 ELSE CountIn(Head(ps), k) + SumCounts(Tail(ps), k)

\* C10: group_by_order skips every page without an order ID: the
\* accumulators are exactly those of the order IDs of the folded pages,
\* each holds the folded pages that carry its order ID, in input order and at
\* least one, and its pickup flag and part counts come from those pages alone.
C10_SkipsPagesWithoutOrder ==
  pc \in {"group", "done"} =>
    /\ DOMAIN order_map =
         { Folded[i].order_id : i \in { j \in 1..Len(Folded) : Truthy(Folded[j].order_id) } }
    /\ \A oid \in DOMAIN order_map :
         LET acc == order_map[oid]
             own == SelectSeq(Folded, LAMBDA p : p.order_id = oid)
         IN  /\ Truthy(oid)
             /\ acc.pages = own
             /\ own # <<>>
             /\ acc.pickup = (classify_pickup /\ \E i \in 1..Len(own) : pickup_search(own[i].text))
             /\ DOMAIN acc.part_numbers = UNION { DOMAIN own[i].part_numbers : i \in 1..Len(own) }
             /\ \A k \in DOMAIN acc.part_numbers : acc.part_numbers[k] = SumCounts(own, k)

\* a page without an order ID, with part codes and a pickup note, was folded
\* and an order of the same document kept its pickup flag false
C10_Witness ==
  /\ pc = "done"
  /\ classify_pickup
  /\ \E i \in 1..Len(all_pages_data) :
       /\ ~ Truthy(all_pages_data[i].order_id)
       /\ all_pages_data[i].part_numbers # <<>>
       /\ pickup_search(all_pages_data[i].text)
  /\ \E oid \in DOMAIN order_map : ~ order_map[oid].pickup

(***************************************************************************)
(* Properties of the accumulators of group_by_order                        *)
(***************************************************************************)
\* C11: accumulator monotonicity: in every step of the pipeline every
\* accumulator stays, each of its part counts stays and does not decrease,
\* and a pickup flag that is true stays true.
C11_AccumulatorMonotone ==
  [][ \A oid \in DOMAIN order_map :
        /\ oid \in DOMAIN order_map'
        /\ order_map[oid].pickup => order_map'[oid].pickup
        /\ \A k \in DOMAIN order_map[oid].part_numbers :
              /\ k \in DOMAIN order_map'[oid].part_numbers
              /\ order_map'[oid].part_numbers[k] >= order_map[oid].part_numbers[k] ]_vars

\* an order whose pickup flag was set by an earlier page has folded a later
\* page without the pickup note, and one of its counts grew beyond what
\* that last page holds
C11_Witness ==
  /\ pc = "done"
  /\ \E oid \in DOMAIN order_map :
       LET acc  == order_map[oid]
           last == acc.pages[Len(acc.pages)]
       IN  /\ Len(acc.pages) >= 2
           /\ acc.pickup
           /\ ~ pickup_search(last.text)
           /\ \E k \in DOMAIN acc.part_numbers : acc.part_numbers[k] > CountIn(last, k)

\* C18: the pickup flag of an order in the result of group_by_order: it is
\* true exactly when classify_pickup is true and the text of at least one of
\* the order's pages matches the pickup pattern.
C18_PickupFlag ==
  pc = "done" =>
    \A oid \in DOMAIN order_map :
      order_map[oid].pickup
        <=> ( classify_pickup
              /\ \E i \in 1..Len(all_pages_data) :
                    /\ all_pages_data[i].order_id = oid
                    /\ pickup_search(all_pages_data[i].text) )

\* with classify_pickup false, an order with a page that carries the pickup
\* note was grouped and its flag is false
C18_Witness ==
  /\ pc = "done"
  /\ \E i \in 1..Len(all_pages_data) :
       /\ all_pages_data[i].order_id \in DOMAIN order_map
       /\ pickup_search(all_pages_data[i].text)
       /\ ~ classify_pickup
       /\ ~ order_map[all_pages_data[i].order_id].pickup

(***************************************************************************)
(* Properties of the relation records of a page                            *)
(***************************************************************************)
\* C12: relation records are unique per page: the records parse_pdf appends
\* for a page that has both identifiers carry that page's order ID and
\* shipment ID and no two of them carry the same code; a page that misses an
\* identifier appends none.
C12_RelationsUniquePerPage ==
  [][ page_num' = page_num + 1 =>
        LET page == all_pages_data'[page_num']
            new  == SubSeq(all_relations', Len(all_relations) + 1, Len(all_relations'))
        IN  IF Truthy(page.order_id) /\ Truthy(page.shipment_id)
            THEN /\ \A j \in 1..Len(new) :
                      new[j].Orden = page.order_id /\ new[j].SH = page.shipment_id
                 /\ \A j, k \in 1..Len(new) : new[j].Codigo = new[k].Codigo => j = k
            ELSE new = <<>> ]_vars

\* C20: relations agree with part counts: the codes of the records
\* parse_pdf appends for a page that has both identifiers are the keys of
\* the page's part_numbers.
C20_RelationsAgreeWithCounts ==
  [][ page_num' = page_num + 1 =>
        LET page == all_pages_data'[page_num']
            new  == SubSeq(all_relations', Len(all_relations) + 1, Len(all_relations'))
        IN  Truthy(page.order_id) /\ Truthy(page.shipment_id)
              => { new[j].Codigo : j \in 1..Len(new) } = DOMAIN page.part_numbers ]_vars

(***************************************************************************)
(* Properties of classify_item                                             *)
(***************************************************************************)
EqCI(a, b) == upper(a) = upper(b)

HasPrefixCI(s, p) == Len(s) >= Len(p) /\ EqCI(SubSeq(s, 1, Len(p)), p)

ContainsCI(s, w) ==
  \E o \in 0..(Len(s) - Len(w)) : EqCI(SubSeq(s, o + 1, o + Len(w)), w)

\* the i-th rule of the ordered rule list fires
RuleFires(i, code, description) ==
  CASE i = 1 -> HasPrefixCI(code, "gb-doz-") \/ ContainsCI(description, "golf ball")
    [] i = 2 -> \/ HasPrefixCI(code, "h-")
                \/ ContainsCI(description, "hat")
                \/ ContainsCI(description, "cap")
    [] i = 3 -> HasPrefixCI(code, "g4-")
    [] i = 4 -> HasPrefixCI(code, "a-") \/ HasPrefixCI(code, "hc-")

RuleLabels == <<"Pelotas", "Gorras", "Guantes", "Accesorios">>

Fired(code, description) == { i \in 1..Len(RuleLabels) : RuleFires(i, code, description) }

CategoryLabels == {"Otros", "Pelotas", "Gorras", "Guantes", "Accesorios"}

\* C8: classify_item returns the label of the first rule of the ordered
\* list (balls, hats, gloves, accessories) that fires, case-insensitively on
\* code and description, and Otros when none fires.
C8_FirstMatchRuleList ==
  calls >= 1 =>
    LET fired == Fired(item_code, item_description)
    IN  category = IF fired = {} THEN "Otros" ELSE RuleLabels[Min(fired)]

\* a lower-case hat code with a ball description was classified as Pelotas
C8_Witness ==
  /\ calls >= 1
  /\ item_code # upper(item_code)
  /\ HasPrefixCI(item_code, "h-")
  /\ ContainsCI(item_description, "golf ball")
  /\ category = "Pelotas"

\* C9: classify_item returns one of the five labels for every input, Otros
\* when no rule fires, and a second call with the same arguments returns the
\* label of the first.
C9_TotalDeterministic ==
  /\ calls >= 1 => /\ category \in CategoryLabels
                   /\ Fired(item_code, item_description) = {} => category = "Otros"
  /\ calls >= 2 => category = previous

\* a code no rule fires for was classified twice, as Otros both times
C9_Witness ==
  /\ calls = 2
  /\ Fired(item_code, item_description) = {}
  /\ category = "Otros"
  /\ previous = "Otros"

\* the family prefixes of the catalog codes and the category of each family
FamilyCategories ==
  << <<"GB-DOZ-", "Pelotas">>, <<"H-", "Gorras">>, <<"G4-", "Guantes">>,
     <<"A-", "Accesorios">>, <<"HC-", "Accesorios">>, <<"B-", "Otros">> >>

\* C17: category by family prefix over the shipped catalog: for every
\* catalog entry classified with its own description, the category returned
\* is the one of the family prefix of the code.
C17_CategoryByFamilyPrefix ==
  ( /\ calls > 0
    /\ item_code \in KeySet
    /\ item_description = PART_DESCRIPTIONS[item_code] )
  => \E i \in 1..Len(FamilyCategories) :
       /\ startswith(item_code, FamilyCategories[i][1])
       /\ category = FamilyCategories[i][2]

(***************************************************************************)
(* Properties of extract_identifiers                                       *)
(***************************************************************************)
\* the ways an order ID is written: a prefix family and what separates it
\* from the digits
OrderForms ==
  { <<"SO", "-">>, <<"SO", "--">>, <<"USS", "">>, <<"USS", "-">>,
    <<"SOC", "">>, <<"SOC", "-">>, <<"AMZ", "">>, <<"AMZ", "-">> }

AllDigits(s, d, e) == \A i \in (d + 1)..e : Ch(s, i) \in DigitChars

\* <<offset, canonical form>> of every order ID written in s as a word of its own
OrderOccurrences(s) ==
  { <<o, f[1] \o "-" \o SubSeq(s, o + Len(f[1]) + Len(f[2]) + 1, e)>> :
      <<o, e, f>> \in { x \in (0..Len(s)) \X (0..Len(s)) \X OrderForms :
                         /\ x[1] + Len(x[3][1]) + Len(x[3][2]) < x[2]
                         /\ SubSeq(s, x[1] + 1, x[1] + Len(x[3][1]) + Len(x[3][2])) = x[3][1] \o x[3][2]
                         /\ AllDigits(s, x[1] + Len(x[3][1]) + Len(x[3][2]), x[2])
                         /\ WordBoundary(s, x[1])
                         /\ WordBoundary(s, x[2]) } }

\* <<offset, literal>> of every shipment ID written in s as a word of its own
ShipmentOccurrences(s) ==
  { <<o, SubSeq(s, o + 1, e)>> :
      <<o, e>> \in { x \in (0..Len(s)) \X (0..Len(s)) :
                      /\ x[2] - x[1] >= 2 + MinShipmentDigits
                      /\ SubSeq(s, x[1] + 1, x[1] + 2) = "SH"
                      /\ AllDigits(s, x[1] + 2, x[2])
                      /\ WordBoundary(s, x[1])
                      /\ WordBoundary(s, x[2]) } }

\* the entry of the smallest offset, or None
FirstOccurrence(occ) ==
  IF occ = {} THEN None
  ELSE (CHOOSE x \in occ : \A y \in occ : x[1] <= y[1])[2]

HyphensIn(s) == Cardinality({ i \in 1..Len(s) : Ch(s, i) = "-" })

\* C13: order ID normalization: extract_identifiers returns the first order
\* ID of the text in the canonical form prefix-digits with exactly one
\* hyphen, or None when the text has none, and, independently, the first
\* shipment ID of the text as written, or None.
C13_OrderIdNormalized ==
  pc = "identified" =>
    /\ identifiers[1] = FirstOccurrence(OrderOccurrences(text))
    /\ identifiers[1] # None => HyphensIn(identifiers[1]) = 1
    /\ identifiers[2] = FirstOccurrence(ShipmentOccurrences(text))
    /\ identifiers[2] # None => Contains(text, identifiers[2])

\* a text with two order IDs, the first written without a hyphen, and no
\* shipment ID
C13_Witness ==
  /\ pc = "identified"
  /\ Cardinality(OrderOccurrences(text)) = 2
  /\ identifiers[1] = "USS-12"
  /\ ~ Contains(text, "USS-12")
  /\ identifiers[2] = None

(***************************************************************************)
(* Properties of the functions on empty inputs                             *)
(***************************************************************************)
\* C14: empty input stability: extract_part_numbers("") returns the empty
\* mapping, classify_item("", "") returns the default category Otros and
\* group_by_order([]) returns an empty mapping.
C14_EmptyInputStability ==
  pc = "called" =>
    /\ text = "" => part_counts = <<>>
    /\ (item_code = "" /\ item_description = "") => category = "Otros"
    /\ all_pages_data = <<>> => order_map = <<>>

\* the three functions have returned on the empty text, the empty code and
\* description, and the empty page list
C14_Witness ==
  /\ pc = "called"
  /\ text = ""
  /\ item_code = ""
  /\ item_description = ""
  /\ all_pages_data = <<>>
  /\ part_counts = <<>>
  /\ category = "Otros"
  /\ DOMAIN order_map = {}

(***************************************************************************)
(* Properties of the merged document                                       *)
(***************************************************************************)
\* merge_documents has returned
Merged == pc \in {"merged", "download"}

Categories == << "Otros", "Pelotas", "Gorras", "Guantes", "Accesorios" >>

\* the data a renderer would show
HasOtherRelation ==
  \E i \in 1..Len(all_relations) :
    classify_item(all_relations[i].Codigo, all_relations[i].Descripcion) = "Otros"

HasCount(c) ==
  \E oid \in DOMAIN all_meta :
    \E k \in DOMAIN all_meta[oid].part_numbers \cap KeySet :
      classify_item(k, PART_DESCRIPTIONS[k]) = c

HasRelationOf(c) ==
  \E i \in 1..Len(all_relations) :
    classify_item(all_relations[i].Codigo, all_relations[i].Descripcion) = c

HasGloveRelation ==
  \E i \in 1..Len(all_relations) : startswith(all_relations[i].Codigo, "G4-")

\* the items of merged of a kind, and of a kind and a category
ItemsOf(kind) == { i \in 1..Len(merged) : merged[i].kind = kind }

ItemsOfCategory(kind, c) == { i \in ItemsOf(kind) : merged[i].category = c }

\* the divider pages between report sections
OrderDividers == { "=== CUSTOMER PICKUP ORDERS ===", "=== OTHER ORDERS ===" }

SectionDividers == { i \in ItemsOf("divider") : merged[i].text \notin OrderDividers }

\* the sections merge_documents follows by a divider page
HasDividerAfter(item) ==
  \/ item.kind \in {"relations_table", "two_day", "category_table", "gloves_table",
                    "shipping_summary"}
  \/ item.kind = "summary" /\ item.category = "Guantes"

\* C15: empty aggregate: a renderer without a row to show returns None, the
\* merged document then holds no such section, and every divider page
\* between sections comes right after a section that was inserted and is
\* followed by one.
C15_EmptyAggregate ==
  Merged =>
    /\ ~ HasOtherRelation =>
          /\ create_relations_table(all_relations) = NoDocument
          /\ ItemsOf("relations_table") = {}
    /\ \A n \in 1..Len(Categories) :
          ~ HasCount(Categories[n]) =>
            /\ create_part_numbers_summary(all_meta, Categories[n]) = NoDocument
            /\ ItemsOfCategory("summary", Categories[n]) = {}
    /\ \A n \in 2..Len(Categories) :
          (Categories[n] # "Guantes" /\ ~ HasRelationOf(Categories[n])) =>
            /\ create_category_table(all_relations, Categories[n]) = NoDocument
            /\ ItemsOfCategory("category_table", Categories[n]) = {}
    /\ ~ HasGloveRelation =>
          /\ create_gloves_table(all_relations) = NoDocument
          /\ ItemsOf("gloves_table") = {}
    /\ all_two_day = {} =>
          /\ create_2day_shipping_page(all_two_day) = NoDocument
          /\ ItemsOf("two_day") = {}
    /\ \A i \in SectionDividers : i > 1 /\ HasDividerAfter(merged[i - 1])

\* relations exist but none of a bag, no glove was counted and no shipment
\* is two-day, while the listing of the hats was inserted
C15_Witness ==
  /\ pc = "merged"
  /\ all_relations # <<>>
  /\ ~ HasOtherRelation
  /\ ~ HasCount("Guantes")
  /\ all_two_day = {}
  /\ ItemsOfCategory("category_table", "Gorras") # {}

\* the part of the report a section item belongs to, by a given order of
\* the parts
PartOf(item, two_day_part, listing_part) ==
  CASE item.kind = "relations_table" -> 1
    [] item.kind = "summary" -> 2
    [] item.kind = "two_day" -> two_day_part
    [] item.kind \in {"category_table", "gloves_table"} -> listing_part

ReportSections ==
  ItemsOf("relations_table") \cup ItemsOf("summary") \cup ItemsOf("two_day")
    \cup ItemsOf("category_table") \cup ItemsOf("gloves_table")

\* C16 as stated: the sections present appear in the order relations table,
\* appearance summaries, per-category listings, two-day-shipping list.
C16_SectionOrder_AsStated ==
  Merged =>
    \A i, j \in ReportSections :
      i < j => PartOf(merged[i], 4, 3) <= PartOf(merged[j], 4, 3)

\* C16: the sections present appear in the order relations table,
\* appearance summaries, two-day-shipping list, per-category listings.
C16_SectionOrder ==
  Merged =>
    \A i, j \in ReportSections :
      i < j => PartOf(merged[i], 3, 4) <= PartOf(merged[j], 3, 4)

\* a merged document with the relations table, a summary, the two-day list
\* and a listing
C16_Witness ==
  /\ pc = "merged"
  /\ ItemsOf("relations_table") # {}
  /\ ItemsOf("summary") # {}
  /\ ItemsOf("two_day") # {}
  /\ ItemsOf("category_table") # {}

\* the category of a summary or a listing
CategoryOfItem(item) == IF item.kind = "gloves_table" THEN "Guantes" ELSE item.category

CategoryRank(c) == CHOOSE n \in 1..Len(Categories) : Categories[n] = c

\* C19: category order in the report: the appearance summaries, and the
\* listings, appear in the category order Otros, Pelotas, Gorras, Guantes,
\* Accesorios.
C19_CategoryOrder ==
  Merged =>
    /\ \A i, j \in ItemsOf("summary") :
          i < j => CategoryRank(merged[i].category) < CategoryRank(merged[j].category)
    /\ \A i, j \in ItemsOf("category_table") \cup ItemsOf("gloves_table") :
          i < j => CategoryRank(CategoryOfItem(merged[i])) < CategoryRank(CategoryOfItem(merged[j]))

\* the page with 0-based number n of the document parent is among the order
\* pages of the merged document
PageInserted(parent, n) ==
  \E i \in ItemsOf("order_page") : merged[i].parent = parent /\ merged[i].number = n

\* C21: page coverage of the merged output: every page of the build sheet
\* and of the shipment list that carries an order ID is among the order
\* pages of the document merge_documents returns.
C21_PageCoverage ==
  Merged =>
    /\ \A n \in 1..Len(build_pages) :
          Truthy(build_pages[n].order_id) => PageInserted("build", build_pages[n].number)
    /\ \A n \in 1..Len(ship_pages) :
          Truthy(ship_pages[n].order_id) => PageInserted("ship", ship_pages[n].number)

\* the order pages of the merged document that belong to order oid
OrderItems(oid) == { i \in ItemsOf("order_page") : merged[i].order_id = oid }

\* the pages of a document that carry order oid, as order pages, in page order
PagesOfOrder(pages, parent, oid) ==
  LET own == SelectSeq(pages, LAMBDA p : p.order_id = oid)
  IN  [ i \in 1..Len(own) |->
          [ kind |-> "order_page", parent |-> parent, number |-> own[i].number,
            order_id |-> oid ] ]

\* the divider page that opens the group of the order page at index i
GroupOf(i) ==
  LET before == { j \in ItemsOf("divider") : j < i /\ merged[j].text \in OrderDividers }
  IN  IF before = {} THEN None
      ELSE merged[CHOOSE j \in before : \A k \in before : k <= j].text

\* the index of the first build page that carries order oid
FirstAppearance(oid) ==
  CHOOSE n \in 1..Len(build_pages) :
    /\ build_pages[n].order_id = oid
    /\ \A m \in 1..(n - 1) : build_pages[m].order_id # oid

\* C22: no order is emitted twice: the order list holds each order ID of the
\* build sheet exactly once, in the order of first appearance; each order of
\* the list is in exactly one of the groups of pickup orders and of other
\* orders; the group of pickup orders comes before the other group; and the
\* order pages of each order are its build pages followed by its shipment
\* pages, each inserted once, in one block.
C22_NoOrderTwice ==
  Merged =>
    /\ { build_order[i] : i \in 1..Len(build_order) }
         = { build_pages[n].order_id : n \in { m \in 1..Len(build_pages) :
                                                 Truthy(build_pages[m].order_id) } }
    /\ \A i, j \in 1..Len(build_order) :
          i < j => /\ build_order[i] # build_order[j]
                   /\ FirstAppearance(build_order[i]) < FirstAppearance(build_order[j])
    /\ \A n \in 1..Len(build_order) :
          LET oid   == build_order[n]
              items == OrderItems(oid)
              low   == CHOOSE i \in items : \A k \in items : i <= k
          IN  /\ items # {}
              /\ items = low..(low + Cardinality(items) - 1)
              /\ [ k \in 1..Cardinality(items) |-> merged[low + k - 1] ]
                   = PagesOfOrder(build_pages, "build", oid)
                       \o PagesOfOrder(ship_pages, "ship", oid)
              /\ \E g \in OrderDividers : \A i \in items : GroupOf(i) = g
              /\ GroupOf(low) = "=== CUSTOMER PICKUP ORDERS ==="
                   <=> (pickup_flag /\ all_meta[oid].pickup)
    /\ \A i, j \in ItemsOf("order_page") :
          (GroupOf(i) = "=== CUSTOMER PICKUP ORDERS ===" /\ GroupOf(j) = "=== OTHER ORDERS ===")
            => i < j
    /\ \A i \in ItemsOf("divider") :
          merged[i].text \in OrderDividers
            => Cardinality({ j \in ItemsOf("divider") : merged[j].text = merged[i].text }) = 1

\* a pickup order and another order were merged, one order is on two build
\* pages or also in the shipment list
C22_Witness ==
  /\ pc = "merged"
  /\ pickups # <<>>
  /\ Len(build_order) > Len(pickups)
  /\ \E n \in 1..Len(build_order) : Cardinality(OrderItems(build_order[n])) > 1

\* the number the summary page writes after a label
SummaryNumber(label) ==
  LET n == CHOOSE i \in 1..Len(summary.lines) : summary.lines[i][1] = label
  IN  summary.lines[n][2]

\* the orders with a page in the section 'Customer Pickup Orders'
PickupSectionOrders ==
  { merged[i].order_id :
      i \in { j \in ItemsOf("order_page") : GroupOf(j) = "=== CUSTOMER PICKUP ORDERS ===" } }

\* C23: pickup count consistency: when the pickup flag is set, the number
\* the summary page writes as 'Customer Pickup Orders' is the number of
\* orders in the section 'Customer Pickup Orders' of the merged document.
C23_PickupCountConsistent ==
  (Merged /\ pickup_flag) =>
    SummaryNumber("Customer Pickup Orders") = Cardinality(PickupSectionOrders)

\* the catalog codes some order of all_meta counted
CountedCatalogCodes ==
  { k \in KeySet : \E oid \in DOMAIN all_meta : k \in DOMAIN all_meta[oid].part_numbers }

\* the codes an appearance summary lists
CodesListed(item) == { item.rows[r][1] : r \in 1..Len(item.rows) }

RECURSIVE SumTotals(_)
\* the totals of a set of items of the merged document added up
SumTotals(items) ==
  IF items = {} THEN 0
  ELSE LET i == CHOOSE j \in items : TRUE
       IN  merged[i].total + SumTotals(items \ {i})

\* C24: the category summaries partition the counts: every catalog code
\* that was counted is listed in exactly one of the category-filtered
\* appearance summaries of the merged document, there is at most one
\* summary per category, and the totals of these summaries add up to the
\* total of the unfiltered summary.
C24_SummariesPartition ==
  Merged =>
    LET general == create_part_numbers_summary(all_meta, None)
    IN  /\ \A k \in CountedCatalogCodes :
              Cardinality({ i \in ItemsOf("summary") : k \in CodesListed(merged[i]) }) = 1
        /\ \A n \in 1..Len(Categories) :
              Cardinality(ItemsOfCategory("summary", Categories[n])) <= 1
        /\ \A i \in ItemsOf("summary") :
              \E n \in 1..Len(Categories) : merged[i].category = Categories[n]
        /\ SumTotals(ItemsOf("summary")) = (IF IsDocument(general) THEN general.total ELSE 0)
        /\ IsDocument(general) => CodesListed(general) = CountedCatalogCodes

\* summaries of all five categories were inserted and an order counted a
\* code more than once
C24_Witness ==
  /\ pc = "merged"
  /\ \A n \in 1..Len(Categories) : ItemsOfCategory("summary", Categories[n]) # {}
  /\ SumTotals(ItemsOf("summary")) > Cardinality(CountedCatalogCodes)

\* the item of the merged document is the section the divider text names
Announces(label, item) ==
  CASE label = "=== RESUMEN DE APARICIONES POR CATEGORÍA ===" -> item.kind = "summary"
    [] label = "=== LISTADO DE PELOTAS POR RELACIÓN ===" ->
         item.kind = "category_table" /\ item.category = "Pelotas"
    [] label = "=== LISTADO DE GORRAS POR RELACIÓN ===" ->
         item.kind = "category_table" /\ item.category = "Gorras"
    [] label = "=== LISTADO DE ACCESORIOS POR RELACIÓN ===" ->
         item.kind = "category_table" /\ item.category = "Accesorios"
    [] label = "=== ÓRDENES CON SHIPPING METHOD: 2 DAY ===" -> item.kind = "two_day"
    [] label = "=== DOCUMENTOS PRINCIPALES ===" ->
         \/ item.kind = "order_page"
         \/ item.kind = "divider" /\ item.text \in OrderDividers
    [] label \in OrderDividers -> item.kind = "order_page"
    [] OTHER -> FALSE

\* C25: divider pages announce what follows: every divider page of the
\* merged document is immediately followed by the section its label names.
C25_DividersAnnounce ==
  Merged =>
    \A i \in ItemsOf("divider") :
      i < Len(merged) /\ Announces(merged[i].text, merged[i + 1])

\* the keys of the accumulators group_by_order makes
AccumulatorKeys == {"pages", "pickup", "part_numbers"}

====
